---- MODULE Spec2Model ----
(***************************************************************************)
(* go-solar: sunrise equation pipeline (Julian day, orbital elements,      *)
(* transit, declination, hour angle, elevation, azimuth, twilight).        *)
(*                                                                         *)
(* Numbers.  The Go code computes in float64.  Here every real quantity is *)
(* a fixed-point integer:                                                  *)
(*   - angles in degrees are integers in micro-degrees (1e-6 degree);      *)
(*   - sines, cosines and ratios are integers scaled by Scale (1e-6);      *)
(*   - a Julian day is a record [day, ms]: the Unix day number and the     *)
(*     offset in milliseconds from 00:00 UTC of that day (the offset may   *)
(*     leave [0, 86400000) after arithmetic), i.e. the Julian day          *)
(*     2440587.5 + day + ms/86400000;                                      *)
(*   - an instant (time.Time at second resolution) is its Unix time in     *)
(*     seconds; ZeroTime stands for time.Time{}.                           *)
(* NaN stands for the float64 NaN; a quotient whose magnitude exceeds 1 is *)
(* kept only as "beyond +1" / "beyond -1" (Beyond, -Beyond), which is all  *)
(* the code ever asks of it.                                               *)
(***************************************************************************)
EXTENDS Integers, Sequences, FiniteSets, TLC

Scale == 1000 * 1000

Thousand == 10 * 100

\* helpers.go Abs
Abs(x) == IF x < 0 THEN -x ELSE x

Sgn(x) == IF x < 0 THEN -1 ELSE 1

\* float64 NaN (compares false with everything, see IsNaN)
NaN == -2147483647

IsNaN(x) == x = NaN

\* a quotient beyond the interval [-1, 1] (sign kept)
Beyond == 2 * Scale

\* math.MaxFloat64, the sentinel of hourAngle
MaxFloat64 == 2147483647

\* time.Time{} (the zero time)
ZeroTime == -2147483646

\* product of two scaled magnitudes, rounded to nearest: a * b / Scale
MulAbs(a, b) ==
  LET a1 == a \div Thousand
      a0 == a % Thousand
      b1 == b \div Thousand
      b0 == b % Thousand
  IN  a1 * b1 + ((a1 * b0 + a0 * b1 + ((a0 * b0 + (Scale \div 2)) \div Thousand)) \div Thousand)

\* float64 multiplication of two scaled values
Mul(a, b) == Sgn(a) * Sgn(b) * MulAbs(Abs(a), Abs(b))

\* a * Scale / b for 0 <= a <= b, b > 0
DivAbs(a, b) ==
  LET r1 == (a % b) * Thousand
      r2 == (r1 % b) * Thousand
  IN  (a \div b) * Scale + (r1 \div b) * Thousand + (r2 \div b)

\* float64 division a / b of two scaled values: NaN for 0/0, +-Inf (Beyond)
\* for x/0, and Beyond for every quotient of magnitude above 1
Quot(a, b) ==
  IF b = 0 THEN (IF a = 0 THEN NaN ELSE Sgn(a) * Beyond)
  ELSE IF Abs(a) > Abs(b) THEN Sgn(a) * Sgn(b) * Beyond
  ELSE Sgn(a) * Sgn(b) * DivAbs(Abs(a), Abs(b))

\* const.go
FullCircleDegrees == 360 * Scale

HalfCircleDegrees == 180 * Scale

QuarterCircleDegrees == 90 * Scale

\* const.go Degree: micro-degrees (0 .. 45 degrees) to micro-radians
Degree(a) ==
  LET a1 == a \div Thousand
      a0 == a % Thousand
  IN  (a1 * 17453 + ((a1 * 293 + a0 * 17453 + 500) \div Thousand) + 500) \div Thousand

\* x * (1 - x2/6 * (1 - x2/20 * (1 - x2/42 * (1 - x2/72)))), x2 = x^2
SinPoly(x, x2) ==
  MulAbs(x, Scale - (MulAbs(x2, Scale - (MulAbs(x2, Scale - (MulAbs(x2,
    Scale - (x2 \div 72)) \div 42)) \div 20)) \div 6))

\* math.Sin on [0, pi/4] radians: x - x^3/3! + x^5/5! - x^7/7! + x^9/9!
SinSeries(x) == SinPoly(x, MulAbs(x, x))

\* 1 - x2/2 * (1 - x2/12 * (1 - x2/30 * (1 - x2/56))), x2 = x^2
CosPoly(x2) ==
  Scale - (MulAbs(x2, Scale - (MulAbs(x2, Scale - (MulAbs(x2,
    Scale - (x2 \div 56)) \div 30)) \div 12)) \div 2)

\* math.Cos on [0, pi/4] radians: 1 - x^2/2! + x^4/4! - x^6/6! + x^8/8!
CosSeries(x) == CosPoly(MulAbs(x, x))

\* sine of an angle in [0, 90] degrees (octant reduction)
SinQ(a) ==
  IF a <= 45 * Scale THEN SinSeries(Degree(a))
  ELSE CosSeries(Degree(QuarterCircleDegrees - a))

\* an angle of [0, 180) degrees folded into [0, 90]: sin(180 - r) = sin(r)
Fold(r) == IF r <= QuarterCircleDegrees THEN r ELSE HalfCircleDegrees - r

\* the sign of the sine of an angle in [0, 360) degrees
SinSign(r) == IF r <= HalfCircleDegrees THEN 1 ELSE -1

\* math.Sin(a * Degree), a in micro-degrees
Sin(a) == SinSign(a % FullCircleDegrees) * SinQ(Fold(a % HalfCircleDegrees))

\* math.Cos(a * Degree), a in micro-degrees
Cos(a) == Sin((a % FullCircleDegrees) + QuarterCircleDegrees)

RECURSIVE AcosSearch(_, _, _)
\* least angle in (lo, hi] whose cosine is at most v (Cos(lo) > v >= Cos(hi))
AcosSearch(v, lo, hi) ==
  IF hi - lo <= 1 THEN hi
  ELSE LET mid == (lo + hi) \div 2
       IN  IF Cos(mid) <= v THEN AcosSearch(v, lo, mid) ELSE AcosSearch(v, mid, hi)

\* math.Acos(v) / Degree: NaN outside [-1, 1], else an angle in [0, 180]
Acos(v) ==
  IF IsNaN(v) \/ v > Scale \/ v < -Scale THEN NaN
  ELSE IF v = Scale THEN 0
  ELSE IF v = -Scale THEN HalfCircleDegrees
  ELSE AcosSearch(v, 0, HalfCircleDegrees)

\* asin = 90 degrees - acos
Complement(a) == IF IsNaN(a) THEN NaN ELSE QuarterCircleDegrees - a

\* math.Asin(v) / Degree: NaN outside [-1, 1], else an angle in [-90, 90]
Asin(v) == Complement(Acos(v))

\* math.Remainder(x, m): IEEE remainder, in [-m/2, m/2]
Remainder(x, m) ==
  LET r == x % m
  IN  IF 2 * r > m THEN r - m ELSE r

\* math.Mod(x, m): result has the sign of x
Fmod(x, m) == IF x >= 0 THEN x % m ELSE -((-x) % m)

secondsInADay == 86400

MsInADay == secondsInADay * Thousand

\* const.go J2000 (2451545) as a Julian day record: 2000-01-01 12:00
J2000 == [day |-> 10957, ms |-> 43200 * Thousand]

\* TimeToJulianDay dividing the integer seconds before converting to float64
TimeToJulianDayWhole(u) == [day |-> u \div secondsInADay, ms |-> 0]

\* julian.go TimeToJulianDay
TimeToJulianDay(u) ==
  [day |-> u \div secondsInADay, ms |-> (u % secondsInADay) * Thousand]

\* julian.go JulianDayToTime: int64() truncates toward zero
JulianDayToTime(d) ==
  LET w == d.day * secondsInADay + (d.ms \div Thousand)
  IN  IF w < 0 /\ d.ms % Thousand > 0 THEN w + 1 ELSE w

\* an angle in degrees divided by 360 (a fraction of a day), in milliseconds
DegToMs(h) == (h \div 100) * 24 + (((h % 100) * 24) \div 100)

\* a fraction of a day in milliseconds times 2*pi, as an angle in micro-degrees
MsToDeg(ms) == (ms \div 6) * 25 + (((ms % 6) * 25) \div 6)

\* meanSolarNoonInternal adding the longitude term instead of subtracting it
meanSolarNoonInternalPlus(longitude, day) ==
  [day |-> day, ms |-> 12 * 3600 * Thousand + DegToMs(longitude)]

\* noon.go meanSolarNoonInternal
meanSolarNoonInternal(longitude, day) ==
  [day |-> day, ms |-> 12 * 3600 * Thousand - DegToMs(longitude)]

\* MeanAnomaly returning the remainder as math.Remainder gives it
meanAnomalyRemainder(d) ==
  LET n == d.day - J2000.day
      f == d.ms - J2000.ms
      q == n \div 2000
      r == n % 2000
      whole == (((171200000 * q) % FullCircleDegrees) + ((985600 * r) % FullCircleDegrees)
                + ((28 * n) \div 100)) % FullCircleDegrees
      part == (f \div 6750) * 77 + (((f % 6750) * 77) \div 6750)
  IN  Remainder(357529100 + whole + part, FullCircleDegrees)

\* anomaly.go MeanAnomaly
meanAnomaly(d) ==
  LET n == d.day - J2000.day
      f == d.ms - J2000.ms
      q == n \div 2000
      r == n % 2000
      whole == (((171200000 * q) % FullCircleDegrees) + ((985600 * r) % FullCircleDegrees)
                + ((28 * n) \div 100)) % FullCircleDegrees
      part == (f \div 6750) * 77 + (((f % 6750) * 77) \div 6750)
      v == Remainder(357529100 + whole + part, FullCircleDegrees)
  IN  IF v < 0 THEN v + FullCircleDegrees ELSE v

\* equationOfCenter
equationOfCenter(solarAnomaly) ==
  Mul(1914800, Sin(solarAnomaly)) + Mul(20000, Sin(2 * solarAnomaly))
    + Mul(300, Sin(3 * solarAnomaly))

\* perihelion.go ArgumentOfPerihelion
argumentOfPerihelion(d) ==
  102930050 + ((8705 * (d.day - J2000.day)) \div Thousand)
    + ((((d.ms - J2000.ms) \div Thousand) * 8705) \div MsInADay)

\* longitude.go eclipticLongitude
eclipticLongitude(solarAnomaly, eoc, d) ==
  Fmod(solarAnomaly + eoc + HalfCircleDegrees + argumentOfPerihelion(d), FullCircleDegrees)

\* transit.go Transit
transit(d, solarAnomaly, eclLon) ==
  [day |-> d.day,
   ms |-> d.ms + Mul(457920, Sin(solarAnomaly)) - Mul(596160, Sin(2 * eclLon))]

\* declination
declination(eclLon) == Asin(Mul(Sin(eclLon), 397790))

\* const.go SunriseCorrectionAngle (-0.01449)
SunriseCorrectionAngle == -14490

\* HourAngleRatio adding the product of the sines instead of subtracting it
HourAngleRatioPlus(sinTarget, latitude, decl) ==
  Quot(sinTarget + Mul(Sin(latitude), Sin(decl)), Mul(Cos(latitude), Cos(decl)))

\* float64 division by a product of cosines: math.Cos of a finite angle is
\* never exactly zero (cos(90*Degree) is about 6.1e-17), so a scaled
\* denominator of 0 stands for a tiny positive one and 0 / denominator is 0
OverCosines(numerator, denominator) ==
  IF numerator = 0 /\ denominator = 0 THEN 0 ELSE Quot(numerator, denominator)

\* the hour-angle ratio (sinTarget - sin(lat)*sin(decl)) / (cos(lat)*cos(decl))
HourAngleRatio(sinTarget, latitude, decl) ==
  OverCosines(sinTarget - Mul(Sin(latitude), Sin(decl)), Mul(Cos(latitude), Cos(decl)))

\* the result of hourAngle for a ratio, with the two sentinels exchanged
HourAngleOfSwapped(ratio) ==
  IF ~IsNaN(ratio) /\ ratio > Scale THEN -MaxFloat64
  ELSE IF ~IsNaN(ratio) /\ ratio < -Scale THEN MaxFloat64
  ELSE Acos(ratio)

\* the result of hourAngle for a ratio, with the two comparisons inclusive
HourAngleOfInclusive(ratio) ==
  IF ~IsNaN(ratio) /\ ratio >= Scale THEN MaxFloat64
  ELSE IF ~IsNaN(ratio) /\ ratio <= -Scale THEN -MaxFloat64
  ELSE Acos(ratio)

\* hourAngle: the two comparisons and the arc cosine
HourAngleOf(ratio) ==
  IF ~IsNaN(ratio) /\ ratio > Scale THEN MaxFloat64
  ELSE IF ~IsNaN(ratio) /\ ratio < -Scale THEN -MaxFloat64
  ELSE Acos(ratio)

\* hourAngle
hourAngle(latitude, decl) ==
  HourAngleOf(HourAngleRatio(SunriseCorrectionAngle, latitude, decl))

\* transit and declination from mean noon d, mean anomaly m, ecliptic longitude l
SolarDayOn(d, m, l) == [transit |-> transit(d, m, l), declination |-> declination(l)]

\* ecliptic longitude from mean noon d and mean anomaly m
SolarDayFor(d, m) == SolarDayOn(d, m, eclipticLongitude(m, equationOfCenter(m), d))

\* mean anomaly from mean noon d
SolarDayAt(d) == SolarDayFor(d, meanAnomaly(d))

\* the chain shared by every query: mean noon, mean anomaly, equation of
\* center, ecliptic longitude, transit and declination
SolarDay(longitude, day) == SolarDayAt(meanSolarNoonInternal(longitude, day))

\* a Julian day shifted by ms milliseconds
JDPlus(d, ms) == [day |-> d.day, ms |-> d.ms + ms]

\* int64(NaN): the conversion of a NaN Julian day (amd64: the minimum int64)
NaNTime == -2147483645

\* Crossings with the two signs exchanged
CrossingsSwapped(tr, ha) ==
  [t1 |-> JulianDayToTime(JDPlus(tr, DegToMs(ha))),
   t2 |-> JulianDayToTime(JDPlus(tr, -DegToMs(ha)))]

\* the two instants transit - frac and transit + frac, frac = ha / 360 days
Crossings(tr, ha) ==
  [t1 |-> JulianDayToTime(JDPlus(tr, -DegToMs(ha))),
   t2 |-> JulianDayToTime(JDPlus(tr, DegToMs(ha)))]

\* SunriseSunsetAt reporting ErrSunNeverRises for either sentinel
SunriseSunsetAtOneError(tr, ha) ==
  IF ha = MaxFloat64 \/ ha = -MaxFloat64
  THEN [t1 |-> ZeroTime, t2 |-> ZeroTime, err |-> "ErrSunNeverRises"]
  ELSE IF IsNaN(ha) THEN [t1 |-> NaNTime, t2 |-> NaNTime, err |-> "nil"]
  ELSE [t1 |-> Crossings(tr, ha).t1, t2 |-> Crossings(tr, ha).t2, err |-> "nil"]

\* sunriseSunsetInternal: the sentinel checks and the conversions
SunriseSunsetAt(tr, ha) ==
  IF ha = MaxFloat64 THEN [t1 |-> ZeroTime, t2 |-> ZeroTime, err |-> "ErrSunNeverRises"]
  ELSE IF ha = -MaxFloat64 THEN [t1 |-> ZeroTime, t2 |-> ZeroTime, err |-> "ErrSunNeverSets"]
  ELSE IF IsNaN(ha) THEN [t1 |-> NaNTime, t2 |-> NaNTime, err |-> "nil"]
  ELSE [t1 |-> Crossings(tr, ha).t1, t2 |-> Crossings(tr, ha).t2, err |-> "nil"]

\* sunriseSunsetInternal: the hour angle of the day s
SunriseSunsetOn(latitude, s) == SunriseSunsetAt(s.transit, hourAngle(latitude, s.declination))

\* sunriseSunsetInternal
sunriseSunsetInternal(latitude, longitude, day) ==
  SunriseSunsetOn(latitude, SolarDay(longitude, day))

\* TimeOfElevationAt clearing only the morning instant of an unreachable target
TimeOfElevationAtMorningOnly(tr, ha) ==
  IF IsNaN(ha) THEN [t1 |-> ZeroTime, t2 |-> JulianDayToTime(tr)] ELSE Crossings(tr, ha)

\* timeOfElevationInternal: the NaN check and the conversions
TimeOfElevationAt(tr, ha) ==
  IF IsNaN(ha) THEN [t1 |-> ZeroTime, t2 |-> ZeroTime] ELSE Crossings(tr, ha)

\* timeOfElevationInternal: the hour angle of the target elevation on the day s
TimeOfElevationOn(latitude, elevation, s) ==
  TimeOfElevationAt(s.transit, Acos(HourAngleRatio(Sin(elevation), latitude, s.declination)))

\* timeOfElevationInternal
timeOfElevationInternal(latitude, longitude, elevation, day) ==
  TimeOfElevationOn(latitude, elevation, SolarDay(longitude, day))

\* the hour angle of an instant, 2*pi*(a - b), in micro-degrees
InstantHourAngle(a, b) == MsToDeg((a.day - b.day) * MsInADay + (a.ms - b.ms))

\* ElevationOn taking the arc cosine: the zenith angle instead of the elevation
ElevationOnZenith(latitude, when, s) ==
  Acos(Mul(Sin(latitude), Sin(s.declination))
       + Mul(Mul(Cos(latitude), Cos(s.declination)),
             Cos(InstantHourAngle(s.transit, TimeToJulianDay(when)))))

\* elevationInternal: the hour angle of the instant and the elevation formula
ElevationOn(latitude, when, s) ==
  Asin(Mul(Sin(latitude), Sin(s.declination))
       + Mul(Mul(Cos(latitude), Cos(s.declination)),
             Cos(InstantHourAngle(s.transit, TimeToJulianDay(when)))))

\* elevationInternal (when is a Unix time; its UTC date selects the day)
elevationInternal(latitude, longitude, when) ==
  ElevationOn(latitude, when, SolarDay(longitude, when \div secondsInADay))

\* azimuthInternal: cosAzimuth
CosAzimuth(latitude, decl, ha, elevation) ==
  IF IsNaN(elevation) THEN NaN
  ELSE Quot(Mul(Sin(decl), Cos(latitude)) - Mul(Mul(Cos(decl), Sin(latitude)), Cos(ha)),
            Cos(elevation))

\* azimuthInternal: the reflection 360 - azimuth for a non-negative hour angle
Reflect(ha, azimuth) ==
  IF IsNaN(azimuth) THEN NaN
  ELSE IF ha >= 0 THEN FullCircleDegrees - azimuth
  ELSE azimuth

\* azimuthInternal: from the hour angle ha of the instant and its elevation
AzimuthAt(latitude, decl, ha, elevation) ==
  Reflect(ha, Acos(CosAzimuth(latitude, decl, ha, elevation)))

\* azimuthInternal: the hour angle of the instant on the day s
AzimuthOn(latitude, when, s, elevation) ==
  AzimuthAt(latitude, s.declination,
            InstantHourAngle(TimeToJulianDay(when), s.transit), elevation)

\* azimuthInternal
azimuthInternal(latitude, longitude, when) ==
  AzimuthOn(latitude, when, SolarDay(longitude, when \div secondsInADay),
            elevationInternal(latitude, longitude, when))

\* twilight.go TwilightType
TwilightTypes == {"Civil", "Nautical", "Astronomical"}

CivilTwilightAngle == -6 * Scale

NauticalTwilightAngle == -12 * Scale

AstronomicalTwilightAngle == -18 * Scale

\* twilightAngle with the Nautical and Astronomical angles exchanged
twilightAngleSwapped(tt) ==
  CASE tt = "Nautical" -> AstronomicalTwilightAngle
    [] tt = "Astronomical" -> NauticalTwilightAngle
    [] OTHER -> CivilTwilightAngle

\* twilight.go twilightAngle
twilightAngle(tt) ==
  CASE tt = "Nautical" -> NauticalTwilightAngle
    [] tt = "Astronomical" -> AstronomicalTwilightAngle
    [] OTHER -> CivilTwilightAngle

\* FirstTwilightType ignoring the argument
FirstTwilightTypeIgnored(twilightType) == "Civil"

\* FirstTwilightType taking the last element of the argument
FirstTwilightTypeLast(twilightType) ==
  IF Len(twilightType) > 0 THEN twilightType[Len(twilightType)] ELSE "Civil"

\* the first element of the variadic twilightType argument, Civil when absent
FirstTwilightType(twilightType) ==
  IF Len(twilightType) > 0 THEN twilightType[1] ELSE "Civil"

\* twilight.go dawnInternal
dawnInternal(latitude, longitude, day, twilightType) ==
  timeOfElevationInternal(latitude, longitude,
                          twilightAngle(FirstTwilightType(twilightType)), day).t1

\* twilight.go duskInternal
duskInternal(latitude, longitude, day, twilightType) ==
  timeOfElevationInternal(latitude, longitude,
                          twilightAngle(FirstTwilightType(twilightType)), day).t2

\* dawnDuskInternal taking the dusk of the default twilight type
dawnDuskInternalMixed(latitude, longitude, day, twilightType) ==
  [t1 |-> dawnInternal(latitude, longitude, day, twilightType),
   t2 |-> duskInternal(latitude, longitude, day, <<>>)]

\* twilight.go dawnDuskInternal
dawnDuskInternal(latitude, longitude, day, twilightType) ==
  timeOfElevationInternal(latitude, longitude,
                          twilightAngle(FirstTwilightType(twilightType)), day)

(***************************************************************************)
(* The caller's state: a Location, a Time and the result of the last query *)
(* until the caller has consumed it.  For the goroutines that call         *)
(* concurrently: the call each one is in, and the local variables of the   *)
(* calls in progress.                                                      *)
(***************************************************************************)
VARIABLES loc, t, res, calls, frames

vars == <<loc, t, res, calls, frames>>

\* number of goroutines calling concurrently
NumCallers == 2

Callers == 1..NumCallers

\* a goroutine that is in no call
Idle == [pc |-> "idle"]

\* the local variables of a call that has not computed them yet
NoFrame == [transit |-> J2000, declination |-> 0, hourAngle |-> 0]

\* no query result is pending
NoResult == [fn |-> "none"]

\* NewLocation clamping the coordinates to [-90, 90] and [-180, 180]
LocationClamped(latitude, longitude) ==
  [latitude |-> IF latitude > QuarterCircleDegrees THEN QuarterCircleDegrees
                ELSE IF latitude < -QuarterCircleDegrees THEN -QuarterCircleDegrees
                ELSE latitude,
   longitude |-> IF longitude > HalfCircleDegrees THEN HalfCircleDegrees
                 ELSE IF longitude < -HalfCircleDegrees THEN -HalfCircleDegrees
                 ELSE longitude]

\* input.go NewLocation
Location(latitude, longitude) == [latitude |-> latitude, longitude |-> longitude]

\* the calendar date of the nearest midnight instead of the date of the instant
DateOfNearest(when) == (when + secondsInADay \div 2) \div secondsInADay

\* input.go Time.Year, Time.Month, Time.Day: the UTC calendar date, as a day number
DateOf(when) == when \div secondsInADay

\* latitudes offered to NewLocation, micro-degrees
Latitudes ==
  {-78223200, 0, 43650000, 65729824, 67390446, 69332144, 72560230, 78223200,
   90000000}

\* longitudes offered to NewLocation, micro-degrees
Longitudes == {0, -79380000, 2123817, 15626700, 180000000}

\* 2024-06-21, the first date offered to NewTime, as a day number
FirstDay == 19895

\* number of dates offered to NewTime after the first
MaxDayIndex == 5

\* 1970-01-01 and 2000-01-01, dates of the reference scenarios, and
\* 2024-09-23, the day after an equinox
ScenarioDays == {0, 10957, 19989}

\* the dates offered to NewTime: every 61st day from the first, and the scenarios
Days == {FirstDay + i * 61 : i \in 0..MaxDayIndex} \cup ScenarioDays

\* times of day offered to NewTimeFromDateTime, seconds
TimesOfDay == {21600, 43200, 72000, 86000}

\* the time.Time values offered to NewTimeFromDateTime, as a time of day and
\* the offset of its zone from UTC in seconds east: each time of day in UTC,
\* an evening in UTC-5, a morning and a noon in UTC+9
ZonedTimes ==
  {<<sec, 0>> : sec \in TimesOfDay}
    \cup {<<72000, -18000>>, <<21600, 32400>>, <<43200, 32400>>}

\* time.Time.UTC: the instant that reads wall in the zone offset seconds east
UTC(wall, offset) == wall - offset

\* elevations offered to TimeOfElevation, micro-degrees
Elevations == {-833333, -8500000, 61930000}

Init ==
  /\ loc = Location(43650000, -79380000)
  /\ t = FirstDay * secondsInADay
  /\ res = NoResult
  /\ calls = [p \in Callers |-> Idle]
  /\ frames = [p \in Callers |-> NoFrame]

\* input.go NewLocation
NewLocation ==
  /\ res = NoResult
  /\ \E latitude \in Latitudes, longitude \in Longitudes :
       loc' = Location(latitude, longitude)
  /\ UNCHANGED <<t, res, calls, frames>>

\* input.go NewTime
NewTime ==
  /\ res = NoResult
  /\ \E day \in Days : t' = day * secondsInADay
  /\ UNCHANGED <<loc, res, calls, frames>>

\* input.go NewTimeFromDateTime
NewTimeFromDateTime ==
  /\ res = NoResult
  /\ \E day \in {FirstDay}, when \in ZonedTimes :
       t' = UTC(day * secondsInADay + when[1], when[2])
  /\ UNCHANGED <<loc, res, calls, frames>>

\* Sunrise
Sunrise ==
  /\ res = NoResult
  /\ LET r == sunriseSunsetInternal(loc.latitude, loc.longitude, DateOf(t))
     IN  res' = [fn |-> "Sunrise", t1 |-> r.t1, err |-> r.err]
  /\ UNCHANGED <<loc, t, calls, frames>>

\* Sunset
Sunset ==
  /\ res = NoResult
  /\ LET r == sunriseSunsetInternal(loc.latitude, loc.longitude, DateOf(t))
     IN  res' = [fn |-> "Sunset", t2 |-> r.t2, err |-> r.err]
  /\ UNCHANGED <<loc, t, calls, frames>>

\* SunriseSunset
SunriseSunset ==
  /\ res = NoResult
  /\ LET r == sunriseSunsetInternal(loc.latitude, loc.longitude, DateOf(t))
     IN  res' = [fn |-> "SunriseSunset", t1 |-> r.t1, t2 |-> r.t2, err |-> r.err]
  /\ UNCHANGED <<loc, t, calls, frames>>

\* TimeOfElevation
TimeOfElevation ==
  /\ res = NoResult
  /\ \E elevation \in Elevations :
       LET r == timeOfElevationInternal(loc.latitude, loc.longitude, elevation, DateOf(t))
       IN  res' = [fn |-> "TimeOfElevation", elevation |-> elevation,
                   t1 |-> r.t1, t2 |-> r.t2]
  /\ UNCHANGED <<loc, t, calls, frames>>

\* Elevation
Elevation ==
  /\ res = NoResult
  /\ res' = [fn |-> "Elevation", val |-> elevationInternal(loc.latitude, loc.longitude, t)]
  /\ UNCHANGED <<loc, t, calls, frames>>

\* Azimuth
Azimuth ==
  /\ res = NoResult
  /\ res' = [fn |-> "Azimuth", val |-> azimuthInternal(loc.latitude, loc.longitude, t)]
  /\ UNCHANGED <<loc, t, calls, frames>>

\* a TwilightType that is none of the three declared constants
UndeclaredTwilightType == "TwilightType(7)"

\* the variadic twilightType arguments offered to Dawn, Dusk and DawnDusk:
\* none, one of the three constants, two of them, an undeclared value
TwilightArgs ==
  {<<>>} \cup {<<tt>> : tt \in TwilightTypes}
    \cup {<<"Nautical", "Astronomical">>, <<"Astronomical", "Civil">>,
          <<UndeclaredTwilightType>>}

\* twilight.go Dawn
Dawn ==
  /\ res = NoResult
  /\ \E twilightType \in TwilightArgs :
       res' = [fn |-> "Dawn", twilightType |-> twilightType,
               t1 |-> dawnInternal(loc.latitude, loc.longitude, DateOf(t), twilightType)]
  /\ UNCHANGED <<loc, t, calls, frames>>

\* twilight.go Dusk
Dusk ==
  /\ res = NoResult
  /\ \E twilightType \in TwilightArgs :
       res' = [fn |-> "Dusk", twilightType |-> twilightType,
               t2 |-> duskInternal(loc.latitude, loc.longitude, DateOf(t), twilightType)]
  /\ UNCHANGED <<loc, t, calls, frames>>

\* twilight.go DawnDusk
DawnDusk ==
  /\ res = NoResult
  /\ \E twilightType \in TwilightArgs :
       LET r == dawnDuskInternal(loc.latitude, loc.longitude, DateOf(t), twilightType)
       IN  res' = [fn |-> "DawnDusk", twilightType |-> twilightType,
                   t1 |-> r.t1, t2 |-> r.t2]
  /\ UNCHANGED <<loc, t, calls, frames>>

\* noon.go MeanSolarNoon on the Location and the Time held
MeanSolarNoonAt ==
  /\ res = NoResult
  /\ res' = [fn |-> "MeanSolarNoon", longitude |-> loc.longitude, day |-> DateOf(t),
              val |-> JulianDayToTime(meanSolarNoonInternal(loc.longitude, DateOf(t)))]
  /\ UNCHANGED <<loc, t, calls, frames>>

\* the caller consumes the result; nothing of the call is kept
Discard ==
  /\ res # NoResult
  /\ res' = NoResult
  /\ UNCHANGED <<loc, t, calls, frames>>

Next ==
  \/ NewLocation
  \/ NewTime
  \/ NewTimeFromDateTime
  \/ Sunrise
  \/ Sunset
  \/ SunriseSunset
  \/ TimeOfElevation
  \/ Elevation
  \/ Azimuth
  \/ Dawn
  \/ Dusk
  \/ DawnDusk
  \/ MeanSolarNoonAt
  \/ Discard

Spec == Init /\ [][Next]_vars

(***************************************************************************)
(* The conversions, called on their own: Julian day to and from time.Time. *)
(***************************************************************************)

\* a float64 Julian day is the exact quotient rounded to the nearest float64,
\* which lies a fraction of a millisecond below it, on it or above it:
\* e is the sign of the rounding error
Float64(d, e) == [day |-> d.day, ms |-> d.ms + e]

\* the signs a rounding error has
Rounding == {-1, 0, 1}

\* the days of the instants offered to TimeToJulianDay: 1940-01-01,
\* 1969-12-31, 1970-01-01, 1970-01-02, 2000-01-01 and 2024-06-21
ConversionDays == {-10957, -1, 0, 1, 10957, FirstDay}

\* the instants offered to TimeToJulianDay, Unix seconds
Instants == {day * secondsInADay + sec : day \in ConversionDays, sec \in {0, 1, 43200, 86399}}

\* fractions of a second, in milliseconds, added to the Julian days offered
\* to JulianDayToTime
SubSeconds == {-999, -500, 0, 500, 999}

\* the result of JulianDayToTime called on d; origin is the instant d was
\* converted from, when it was
Converted(origin, d) ==
  [fn |-> "JulianDayToTime", origin |-> origin, d |-> d, val |-> JulianDayToTime(d)]

\* julian.go TimeToJulianDay, called on an instant
CallTimeToJulianDay ==
  /\ res = NoResult
  /\ \E when \in Instants, e \in Rounding :
       res' = [fn |-> "TimeToJulianDay", when |-> when,
               d |-> Float64(TimeToJulianDay(when), e)]
  /\ UNCHANGED <<loc, t, calls, frames>>

\* julian.go JulianDayToTime, called on the Julian day just computed from an
\* instant, or on any Julian day
CallJulianDayToTime ==
  /\ \/ /\ res.fn = "TimeToJulianDay"
        /\ res' = Converted(<<res.when>>, res.d)
     \/ /\ res = NoResult
        /\ \E when \in Instants, ms \in SubSeconds :
             res' = Converted(<<>>, Float64(TimeToJulianDay(when), ms))
  /\ UNCHANGED <<loc, t, calls, frames>>

\* longitudes offered to MeanSolarNoon, micro-degrees
NoonLongitudes ==
  {-HalfCircleDegrees, -179990000, -79380000, 0, 15626700, 179999999,
   HalfCircleDegrees}

\* noon.go MeanSolarNoon, called on a Location of the longitude and the Time
\* of the date
MeanSolarNoon ==
  /\ res = NoResult
  /\ \E longitude \in NoonLongitudes, day \in ConversionDays :
       res' = [fn |-> "MeanSolarNoon", longitude |-> longitude, day |-> day,
               val |-> JulianDayToTime(meanSolarNoonInternal(longitude, day))]
  /\ UNCHANGED <<loc, t, calls, frames>>

NextConvert ==
  \/ CallTimeToJulianDay
  \/ CallJulianDayToTime
  \/ MeanSolarNoon
  \/ Discard

SpecConvert == Init /\ [][NextConvert]_vars

(***************************************************************************)
(* The queries on coordinates of any size: NewLocation does not validate.  *)
(***************************************************************************)

\* latitudes offered to NewLocation beyond [-90, 90] degrees, and one within
AnyLatitudes == {43650000, 100 * Scale, -135 * Scale}

\* longitudes offered to NewLocation beyond [-180, 180] degrees, and one within
AnyLongitudes == {-79380000, 200 * Scale, -540 * Scale}

\* input.go NewLocation, Latitude and Longitude: the Location made of the
\* arguments, and the arguments as the caller passed them
NewLocationAny ==
  /\ res = NoResult
  /\ \E latitude \in AnyLatitudes, longitude \in AnyLongitudes :
       /\ loc' = Location(latitude, longitude)
       /\ res' = [fn |-> "NewLocation", latitude |-> latitude, longitude |-> longitude]
  /\ UNCHANGED <<t, calls, frames>>

NextAny ==
  \/ NewLocationAny
  \/ NewTime
  \/ Sunrise
  \/ Sunset
  \/ SunriseSunset
  \/ TimeOfElevation
  \/ Elevation
  \/ Azimuth
  \/ Dawn
  \/ Dusk
  \/ DawnDusk
  \/ Discard

SpecAny == Init /\ [][NextAny]_vars

(***************************************************************************)
(* Concurrent callers: SunriseSunset called from several goroutines, each  *)
(* call running through sunriseSunsetInternal statement by statement.      *)
(***************************************************************************)

\* FrameOf keeping the local variables of every call in one place
FrameOfShared(p) == 1

\* where the local variables of goroutine p's call live: its own stack frame
FrameOf(p) == p

\* the arguments offered to the concurrent calls
ConcurrentArgs ==
  {[latitude |-> latitude, longitude |-> 15626700, day |-> day] :
     latitude \in {43650000, 78223200}, day \in {FirstDay, 20078}}

\* goroutine p calls SunriseSunset
Call(p) ==
  /\ calls[p].pc = "idle"
  /\ \E args \in ConcurrentArgs :
       calls' = [calls EXCEPT ![p] = [pc |-> "chain", args |-> args]]
  /\ UNCHANGED <<loc, t, res, frames>>

\* sunriseSunsetInternal: d, meanAnomaly, equationOfCenter, eclipticLongitude,
\* transit and declination
Chain(p) ==
  /\ calls[p].pc = "chain"
  /\ frames' = [frames EXCEPT ![FrameOf(p)] =
                  [transit |-> SolarDay(calls[p].args.longitude, calls[p].args.day).transit,
                   declination |-> SolarDay(calls[p].args.longitude, calls[p].args.day).declination,
                   hourAngle |-> 0]]
  /\ calls' = [calls EXCEPT ![p].pc = "angle"]
  /\ UNCHANGED <<loc, t, res>>

\* sunriseSunsetInternal: hourAngle
Angle(p) ==
  /\ calls[p].pc = "angle"
  /\ frames' = [frames EXCEPT ![FrameOf(p)].hourAngle =
                  hourAngle(calls[p].args.latitude, frames[FrameOf(p)].declination)]
  /\ calls' = [calls EXCEPT ![p].pc = "return"]
  /\ UNCHANGED <<loc, t, res>>

\* sunriseSunsetInternal: the sentinel checks and the return
Return(p) ==
  /\ calls[p].pc = "return"
  /\ calls' = [calls EXCEPT ![p] =
                 [pc |-> "done", args |-> calls[p].args,
                  result |-> SunriseSunsetAt(frames[FrameOf(p)].transit,
                                             frames[FrameOf(p)].hourAngle)]]
  /\ UNCHANGED <<loc, t, res, frames>>

\* the goroutine consumes the result; the frame of the call is gone
Consume(p) ==
  /\ calls[p].pc = "done"
  /\ calls' = [calls EXCEPT ![p] = Idle]
  /\ frames' = [frames EXCEPT ![FrameOf(p)] = NoFrame]
  /\ UNCHANGED <<loc, t, res>>

NextConcurrent ==
  \E p \in Callers :
    \/ Call(p)
    \/ Chain(p)
    \/ Angle(p)
    \/ Return(p)
    \/ Consume(p)

SpecConcurrent == Init /\ [][NextConcurrent]_vars

(***************************************************************************)
(* The NMEA sentence parser and the constructors that read a sentence.     *)
(* A sentence is a string; a byte of it is a string of one character.      *)
(***************************************************************************)

\* the ASCII characters of the codes 32 (the space) to 95, in code order
Printable ==
  " !\"#$%&'()*+,-./0123456789:;<=>?@ABCDEFGHIJKLMNOPQRSTUVWXYZ[\\]^_"

\* the ASCII characters of the codes 97 to 126, in code order
LowerCase == "abcdefghijklmnopqrstuvwxyz{|}~"

\* s[i-1] in the source: the byte at the 1-based position i
At(s, i) == SubSeq(s, i, i)

\* the positions of the byte c in s
Positions(s, c) == {i \in 1..Len(s) : At(s, i) = c}

\* strings.IndexByte, 1-based: the first position, 0 where the source has -1
IndexByte(s, c) ==
  IF Positions(s, c) = {} THEN 0
  ELSE CHOOSE i \in Positions(s, c) : \A j \in Positions(s, c) : i <= j

\* the value of a byte
Byte(c) ==
  IF IndexByte(LowerCase, c) > 0 THEN 96 + IndexByte(LowerCase, c)
  ELSE 31 + IndexByte(Printable, c)

RECURSIVE XorBits(_, _, _)
\* the low n bits of a ^ b
XorBits(a, b, n) ==
  IF n = 0 THEN 0
  ELSE ((a + b) % 2) + 2 * XorBits(a \div 2, b \div 2, n - 1)

\* a ^ b on bytes, as a table
Xor == [a \in 0..255 |-> [b \in 0..255 |-> XorBits(a, b, 8)]]

RECURSIVE TrimLeft(_)
TrimLeft(s) == IF s # "" /\ At(s, 1) = " " THEN TrimLeft(Tail(s)) ELSE s

RECURSIVE TrimRight(_)
TrimRight(s) ==
  IF s # "" /\ At(s, Len(s)) = " " THEN TrimRight(SubSeq(s, 1, Len(s) - 1)) ELSE s

\* strings.TrimSpace
TrimSpace(s) == TrimRight(TrimLeft(s))

\* strings.Cut at the position idx of the separator (0: not found)
CutAt(s, idx) ==
  IF idx = 0 THEN [before |-> s, after |-> "", found |-> FALSE]
  ELSE [before |-> SubSeq(s, 1, idx - 1), after |-> SubSeq(s, idx + 1, Len(s)),
        found |-> TRUE]

\* strings.Cut
Cut(s, sep) == CutAt(s, IndexByte(s, sep))

\* the value of a decimal digit, -1 for any other byte
Digit(c) == IndexByte("0123456789", c) - 1

\* the value of a hexadecimal digit in either case, -1 for any other byte
HexDigit(c) ==
  IF IndexByte("0123456789ABCDEF", c) > 0 THEN IndexByte("0123456789ABCDEF", c) - 1
  ELSE IndexByte("0123456789abcdef", c) - 1

RECURSIVE ParseHex(_, _, _)
\* strconv.ParseUint(s, 16, 8) from position i on: -1 for a byte that is not
\* a hexadecimal digit or a value above 255
ParseHex(s, i, acc) ==
  IF i > Len(s) THEN acc
  ELSE IF HexDigit(At(s, i)) < 0 \/ acc * 16 + HexDigit(At(s, i)) > 255 THEN -1
  ELSE ParseHex(s, i + 1, acc * 16 + HexDigit(At(s, i)))

\* strconv.ParseUint(s, 16, 8): the value, -1 for an error
ParseUint(s) == IF s = "" THEN -1 ELSE ParseHex(s, 1, 0)

RECURSIVE Digits(_, _, _)
\* the value of the decimal digits of s from position i on, -1 if a byte is
\* not a digit
Digits(s, i, acc) ==
  IF i > Len(s) THEN acc
  ELSE IF Digit(At(s, i)) < 0 THEN -1
  ELSE Digits(s, i + 1, acc * 10 + Digit(At(s, i)))

\* a string of one or more decimal digits
Unsigned(s) == IF s = "" THEN -1 ELSE Digits(s, 1, 0)

\* a parsed number: n < 0 is the error of the digits
Signed(sign, n) == [ok |-> n >= 0, val |-> IF n >= 0 THEN sign * n ELSE 0]

\* strconv.Atoi: an optional sign and decimal digits
Atoi(s) ==
  IF s # "" /\ At(s, 1) = "-" THEN Signed(-1, Unsigned(Tail(s)))
  ELSE IF s # "" /\ At(s, 1) = "+" THEN Signed(1, Unsigned(Tail(s)))
  ELSE Signed(1, Unsigned(s))

RECURSIVE Pow10(_)
Pow10(n) == IF n = 0 THEN 1 ELSE 10 * Pow10(n - 1)

\* the digits after the decimal point, in millionths
Millionths(frac) ==
  IF frac = "" THEN 0
  ELSE IF Len(frac) > 6 THEN Unsigned(SubSeq(frac, 1, 6))
  ELSE IF Unsigned(frac) < 0 THEN -1
  ELSE Unsigned(frac) * Pow10(6 - Len(frac))

\* a decimal number of whole part w and fraction f, in millionths
Decimal(sign, w, f, c) ==
  IF (w = "" /\ (~c.found \/ f = "")) THEN [ok |-> FALSE, val |-> 0]
  ELSE IF (w # "" /\ Unsigned(w) < 0) \/ Millionths(f) < 0
         \/ (Len(f) > 6 /\ Unsigned(f) < 0)
       THEN [ok |-> FALSE, val |-> 0]
  ELSE [ok |-> TRUE,
        val |-> sign * ((IF w = "" THEN 0 ELSE Unsigned(w)) * Scale + Millionths(f))]

\* a decimal number without its sign
Unsigned64(sign, s, c) == Decimal(sign, c.before, c.after, c)

\* strings.EqualFold for a word of letters: s is lower or upper, whatever the
\* case of each letter
EqualFold(s, lower, upper) ==
  /\ Len(s) = Len(lower)
  /\ \A i \in 1..Len(s) : At(s, i) \in {At(lower, i), At(upper, i)}

\* strconv.ParseFloat(s, 64) of a decimal string (an optional sign, digits
\* and at most one decimal point), in millionths, and of NaN spelled in any
\* case; exponents, infinities and hexadecimal forms are not among the inputs
ParseFloat(s) ==
  IF EqualFold(s, "nan", "NAN") THEN [ok |-> TRUE, val |-> NaN]
  ELSE IF s # "" /\ At(s, 1) = "-" THEN Unsigned64(-1, Tail(s), Cut(Tail(s), "."))
  ELSE IF s # "" /\ At(s, 1) = "+" THEN Unsigned64(1, Tail(s), Cut(Tail(s), "."))
  ELSE Unsigned64(1, s, Cut(s, "."))

\* the leap years of the Gregorian calendar
IsLeap(y) == y % 4 = 0 /\ (y % 100 # 0 \/ y % 400 = 0)

\* the leap days of the years 1..n
LeapsThrough(n) == (n \div 4) - (n \div 100) + (n \div 400)

\* the day number (days since 1970-01-01) of 1 January of the year y
DaysBeforeYear(y) == 365 * (y - 1970) + LeapsThrough(y - 1) - LeapsThrough(1969)

\* package time: the days of a common year before each month
daysBefore == <<0, 31, 59, 90, 120, 151, 181, 212, 243, 273, 304, 334>>

\* the day number of the first day of month m (0..11) of the year y
DaysBeforeMonth(y, m) ==
  DaysBeforeYear(y) + daysBefore[m + 1] + (IF IsLeap(y) /\ m >= 2 THEN 1 ELSE 0)

\* time.Date on a month or a day outside its range: the month carries into
\* the year, the day into the month
DayNumber(year, month, day) ==
  DaysBeforeMonth(year + ((month - 1) \div 12), (month - 1) % 12) + day - 1

\* 10^9
Billion == Thousand * Scale

\* an instant of total seconds and nsec nanoseconds after the start of the day d
Instant(d, total, nsec) ==
  [day |-> d + ((total + (nsec \div Billion)) \div secondsInADay),
   sec |-> (total + (nsec \div Billion)) % secondsInADay,
   nsec |-> nsec % Billion]

\* time.Date(year, month, day, hour, min, sec, nsec, time.UTC): fields outside
\* their range are carried into the next larger one
Date(year, month, day, hour, min, sec, nsec) ==
  Instant(DayNumber(year, month, day), hour * 3600 + min * 60 + sec, nsec)

\* time.Time{}
ZeroDate == Date(1, 1, 1, 0, 0, 0, 0)

\* time.Time.Year: the year that holds the day, sought among those around
\* 1970 + day/365
Year(tm) ==
  CHOOSE y \in (1969 + (tm.day \div 365))..(1971 + (tm.day \div 366)) :
    DaysBeforeYear(y) <= tm.day /\ tm.day < DaysBeforeYear(y + 1)

\* time.Time.Month of an instant in the year y
MonthIn(tm, y) ==
  CHOOSE m \in 1..12 :
    /\ DaysBeforeMonth(y, m - 1) <= tm.day
    /\ tm.day < DayNumber(y, m + 1, 1)

\* time.Time.Month
Month(tm) == MonthIn(tm, Year(tm))

\* time.Time.Day
Day(tm) == tm.day - DaysBeforeMonth(Year(tm), Month(tm) - 1) + 1

\* the nmeaPosition and error of a failed parse
Failure(err) == [err |-> err, Latitude |-> 0, Longitude |-> 0, Time |-> ZeroDate]

\* nmea.go maxNMEAFields
maxNMEAFields == 20

RECURSIVE SplitFromShort(_, _, _)
\* splitNMEAFields stopping one field early
SplitFromShort(s, n, idx) ==
  IF n >= maxNMEAFields - 1 THEN <<>>
  ELSE IF idx = 0 THEN <<s>>
  ELSE <<SubSeq(s, 1, idx - 1)>>
         \o SplitFromShort(SubSeq(s, idx + 1, Len(s)), n + 1,
                           IndexByte(SubSeq(s, idx + 1, Len(s)), ","))

RECURSIVE SplitFrom(_, _, _)
\* splitNMEAFields: the loop, n fields written, idx the position of the next comma
SplitFrom(s, n, idx) ==
  IF n >= maxNMEAFields THEN <<>>
  ELSE IF idx = 0 THEN <<s>>
  ELSE <<SubSeq(s, 1, idx - 1)>>
         \o SplitFrom(SubSeq(s, idx + 1, Len(s)), n + 1,
                      IndexByte(SubSeq(s, idx + 1, Len(s)), ","))

\* splitNMEAFields: fields[:n]
splitNMEAFields(s) == SplitFrom(s, 0, IndexByte(s, ","))

RECURSIVE XorOver(_, _, _)
\* validateChecksum: the loop over the bytes lo..hi of the sentence, by halves
\* (^ is associative)
XorOver(sentence, lo, hi) ==
  IF lo > hi THEN 0
  ELSE IF lo = hi THEN Byte(At(sentence, lo))
  ELSE Xor[XorOver(sentence, lo, (lo + hi) \div 2)]
          [XorOver(sentence, ((lo + hi) \div 2) + 1, hi)]

\* validateChecksum comparing nothing
validateChecksumParsed(sentence, checksumStr) ==
  IF ParseUint(checksumStr) < 0 THEN "ErrInvalidChecksum" ELSE "nil"

\* validateChecksum
validateChecksum(sentence, checksumStr) ==
  IF ParseUint(checksumStr) < 0 THEN "ErrInvalidChecksum"
  ELSE IF XorOver(sentence, 1, Len(sentence)) # ParseUint(checksumStr) THEN "ErrInvalidChecksum"
  ELSE "nil"

\* parseNMEATime: the fractional seconds, scaled to nanoseconds
Nanoseconds(fracStr) ==
  [ok |-> Atoi(fracStr).ok, val |-> Atoi(fracStr).val * Pow10(9 - Len(fracStr))]

\* parseNMEATime: the fraction, cut to 9 bytes, when the 7th byte is a point
Fraction(timeStr) ==
  IF Len(timeStr) > 7 /\ At(timeStr, 7) = "."
  THEN Nanoseconds(SubSeq(timeStr, 8, IF Len(timeStr) > 16 THEN 16 ELSE Len(timeStr)))
  ELSE [ok |-> TRUE, val |-> 0]

\* parseNMEATime: the error checks of the four numbers and the call of time.Date
TimeOf(hour, minute, second, nanosecond, year, month, day) ==
  IF ~hour.ok \/ ~minute.ok \/ ~second.ok \/ ~nanosecond.ok
  THEN [err |-> "ErrInvalidDate", Time |-> ZeroDate]
  ELSE [err |-> "nil",
        Time |-> Date(year, month, day, hour.val, minute.val, second.val,
                      nanosecond.val)]

\* parseNMEATime
parseNMEATime(timeStr, year, month, day) ==
  IF Len(timeStr) < 6 THEN [err |-> "ErrInvalidDate", Time |-> ZeroDate]
  ELSE TimeOf(Atoi(SubSeq(timeStr, 1, 2)), Atoi(SubSeq(timeStr, 3, 4)),
              Atoi(SubSeq(timeStr, 5, 6)), Fraction(timeStr), year, month, day)

\* minutes / 60.0
Sixtieth(minutes) == Sgn(minutes) * (Abs(minutes) \div 60)

\* degrees + minutes/60.0, NaN when either is
DecimalDegrees(degrees, minutes) ==
  IF IsNaN(degrees) \/ IsNaN(minutes) THEN NaN ELSE degrees + Sixtieth(minutes)

\* -lat, NaN when lat is
Negated(lat) == IF IsNaN(lat) THEN NaN ELSE -lat

\* parseLatitude, parseLongitude: degrees + minutes/60 and the indicator
Hemisphere(degrees, minutes, indicator, negative, positive) ==
  IF ~degrees.ok \/ ~minutes.ok THEN [err |-> "ErrInvalidPosition", val |-> 0]
  ELSE IF indicator = negative
       THEN [err |-> "nil", val |-> Negated(DecimalDegrees(degrees.val, minutes.val))]
  ELSE IF indicator # positive THEN [err |-> "ErrInvalidPosition", val |-> 0]
  ELSE [err |-> "nil", val |-> DecimalDegrees(degrees.val, minutes.val)]

\* parseLatitude, parseLongitude: the split at two bytes before the decimal
\* point, dotIdx its 1-based position
Coordinate(str, indicator, dotIdx, negative, positive) ==
  IF str = "" \/ indicator = "" THEN [err |-> "ErrInvalidPosition", val |-> 0]
  ELSE IF dotIdx < 3 THEN [err |-> "ErrInvalidPosition", val |-> 0]
  ELSE Hemisphere(ParseFloat(SubSeq(str, 1, dotIdx - 3)),
                  ParseFloat(SubSeq(str, dotIdx - 2, Len(str))),
                  indicator, negative, positive)

\* parseLatitude
parseLatitude(latStr, nsStr) == Coordinate(latStr, nsStr, IndexByte(latStr, "."), "S", "N")

\* parseLongitude
parseLongitude(lonStr, ewStr) == Coordinate(lonStr, ewStr, IndexByte(lonStr, "."), "W", "E")

\* the time, latitude and longitude put together with the latitude's error
\* reported before the time's
PositionLatitudeFirst(tm, lat, lon) ==
  IF lat.err # "nil" THEN Failure(lat.err)
  ELSE IF tm.err # "nil" THEN Failure(tm.err)
  ELSE IF lon.err # "nil" THEN Failure(lon.err)
  ELSE [err |-> "nil", Latitude |-> lat.val, Longitude |-> lon.val, Time |-> tm.Time]

\* parseGGA, parseRMC: the first error of time, latitude and longitude, or the position
Position(tm, lat, lon) ==
  IF tm.err # "nil" THEN Failure(tm.err)
  ELSE IF lat.err # "nil" THEN Failure(lat.err)
  ELSE IF lon.err # "nil" THEN Failure(lon.err)
  ELSE [err |-> "nil", Latitude |-> lat.val, Longitude |-> lon.val, Time |-> tm.Time]

\* parseGGA
parseGGA(fields, year, month, day) ==
  IF Len(fields) < 7 THEN Failure("ErrInvalidNMEA")
  ELSE IF year = 0 \/ month = 0 \/ day = 0 THEN Failure("ErrInvalidDate")
  ELSE Position(parseNMEATime(fields[2], year, month, day),
                parseLatitude(fields[3], fields[4]),
                parseLongitude(fields[5], fields[6]))

\* parseRMC: the two-digit year made a four-digit one
Century(year) == IF year < 50 THEN year + 2000 ELSE year + 1900

\* parseRMC: the date numbers checked, then time, latitude and longitude
RMCPosition(fields, day, monthInt, year) ==
  IF ~day.ok \/ ~monthInt.ok \/ ~year.ok THEN Failure("ErrInvalidDate")
  ELSE Position(parseNMEATime(fields[2], Century(year.val), monthInt.val, day.val),
                parseLatitude(fields[4], fields[5]),
                parseLongitude(fields[6], fields[7]))

\* parseRMC
parseRMC(fields) ==
  IF Len(fields) < 10 THEN Failure("ErrInvalidNMEA")
  ELSE IF fields[3] # "A" THEN Failure("ErrInvalidNMEA")
  ELSE IF Len(fields[10]) # 6 THEN Failure("ErrInvalidDate")
  ELSE RMCPosition(fields, Atoi(SubSeq(fields[10], 1, 2)),
                   Atoi(SubSeq(fields[10], 3, 4)), Atoi(SubSeq(fields[10], 5, 6)))

\* parseNMEA reporting a type it does not support as a malformed sentence
ParseTypeMalformed(sentenceType, fields, year, month, day) ==
  IF sentenceType = "GGA" THEN parseGGA(fields, year, month, day)
  ELSE IF sentenceType = "RMC" THEN parseRMC(fields)
  ELSE Failure("ErrInvalidNMEA")

\* parseNMEA: the switch on the sentence type
ParseType(sentenceType, fields, year, month, day) ==
  IF sentenceType = "GGA" THEN parseGGA(fields, year, month, day)
  ELSE IF sentenceType = "RMC" THEN parseRMC(fields)
  ELSE Failure("ErrUnsupportedSentence")

\* parseNMEA: the field count and the length of the sentence id
ParseFields(fields, year, month, day) ==
  IF Len(fields) < 2 THEN Failure("ErrInvalidNMEA")
  ELSE IF Len(fields[1]) < 3 THEN Failure("ErrInvalidNMEA")
  ELSE ParseType(SubSeq(fields[1], Len(fields[1]) - 2, Len(fields[1])), fields,
                 year, month, day)

\* parseNMEA: the checksum delimiter and the checksum
ParseCut(c, year, month, day) ==
  IF ~c.found \/ IndexByte(c.after, "*") # 0 THEN Failure("ErrInvalidNMEA")
  ELSE IF validateChecksum(c.before, c.after) # "nil"
       THEN Failure(validateChecksum(c.before, c.after))
  ELSE ParseFields(splitNMEAFields(c.before), year, month, day)

\* parseNMEA: the prefix of the trimmed sentence
ParseTrimmed(nmea, year, month, day) ==
  IF nmea = "" \/ At(nmea, 1) # "$" THEN Failure("ErrInvalidNMEA")
  ELSE ParseCut(Cut(Tail(nmea), "*"), year, month, day)

\* parseNMEA
parseNMEA(nmea, year, month, day) == ParseTrimmed(TrimSpace(nmea), year, month, day)

\* an RMC sentence of the last day of the years that parseRMC places after 2000
LastYear == "$GPRMC,000000,A,4807.038,N,01131.000,E,022.4,084.4,311249,003.1,W*64"

\* the sentences offered to the parser
Sentences ==
  {
   "$GPGGA,123519,4807.038,N,01131.000,E,1,08,0.9,545.4,M,46.9,M,,*47",  \* a GGA fix
   "$GPGGA,250000,4807.038,N,01131.000,E,1,08,0.9,545.4,M,46.9,M,,*4D",  \* GGA, hour 25
   "$GPGGA,235959.75,4807.038,N,01131.000,E,1,08,0.9,545.4,M,46.9,M,,*67",  \* GGA, fraction of a second
   "$GPGGA,123519,3351.000,S,07030.500,W,1,08,0.9,545.4,M,46.9,M,,*4F",  \* GGA, southern and western hemisphere
   "$GPGGA,123519,4807.038,N,01131.000,E*4E",  \* GGA, 6 fields
   "$GPGGA,1235,4807.038,N,01131.000,E,1,08,0.9,545.4,M,46.9,M,,*4F",  \* GGA, 4-character time
   "$GPGGA,123519,,N,01131.000,E,1,08,0.9,545.4,M,46.9,M,,*59",  \* GGA, empty latitude
   "$GPGGA,123519,4807.038,N,01131.000,E,1,08,0.9,545.4,M,46.9,M,,*48",  \* GGA, checksum of another sentence
   "$GPGGA,123519,4807.038,N,01131.000,E,1,08,0.9,545.4,M,46.9,M,,*XY",  \* GGA, checksum not hexadecimal
   "$GPGGA,123510,4807.038,N,01131.000,E,1,08,0.9,545.4,M,46.9,M,,*4e",  \* GGA, checksum in lower case
   "$GPGGA,123519,4807.038,N,01131.000,E,1,08,0.9,545.4,M,46.9,M,,*047",  \* GGA, checksum with a leading zero
   "$GPGGA,123519,4807.038,N,01131.000,E,1,08,0.9,545.4,M,46.9,M,,*",  \* GGA, checksum absent
   "  $GPGGA,123519,4807.038,N,01131.000,E,1,08,0.9,545.4,M,46.9,M,,*47 ",  \* GGA in blanks
   "GPGGA,123519,4807.038,N,01131.000,E,1,08,0.9,545.4,M,46.9,M,,*47",  \* GGA, no $
   "$GPGGA,123519,4807.038,N,01131.000,E,1,08,0.9,545.4,M,46.9,M,,",  \* GGA, no *
   "$GPGGA,123519,4807.038,N,01131.000,E,1,08,0.9,545.4,M,46.9,M,,*47*47",  \* GGA, two *
   "$GPRMC,123519,A,4807.038,N,01131.000,E,022.4,084.4,230394,003.1,W*6A",  \* an RMC fix
   "$GPRMC,123519,A,4807.038,N,01131.000,E,022.4,084.4,230325,003.1,W*60",  \* RMC, year 25
   LastYear,  \* RMC, year 49
   "$GPRMC,235959,A,4807.038,N,01131.000,E,022.4,084.4,010150,003.1,W*6C",  \* RMC, year 50
   "$GPRMC,123519,A,4807.038,N,01131.000,E,022.4,084.4,310694,003.1,W*6C",  \* RMC, 31 June
   "$GPRMC,123519,A,4807.038,N,01131.000,E,022.4,084.4,001394,003.1,W*6A",  \* RMC, day 00 and month 13
   "$GPRMC,123519,A,4807.038,N,01131.000,E,022.4,084.4,2303-1,003.1,W*7B",  \* RMC, signed year
   "$GPRMC,246060,A,4807.038,N,01131.000,E,022.4,084.4,230394,003.1,W*61",  \* RMC, 24:60:60
   "$GPRMC,123519.-5,A,4807.038,N,01131.000,E,022.4,084.4,230394,003.1,W*5C",  \* RMC, signed fraction
   "$GPRMC,123519,V,4807.038,N,01131.000,E,022.4,084.4,230394,003.1,W*7D",  \* RMC, status V
   "$GPRMC,123519,A,4807.038,N,01131.000,E,022.4,084.4,23039,003.1,W*5E",  \* RMC, 5-character date
   "$GPRMC,123519,A,4807.038,N,01131.000,E,022.4,084.4,23ab94,003.1,W*6A",  \* RMC, letters in the date
   "$GPRMC,123519,A,4807.038,N,01131.000,E,022.4,084.4*32",  \* RMC, 9 fields
   "$GPRMC,123519,V,4807.038,N,01131.000,E,022.4,084.4,230394,003.1,W*00",  \* RMC, wrong checksum and status V
   "$GPGSV,3,1,11,03,03,111,00,04,15,270,00*7F",  \* GSV, not supported
   "$GPGSV,3,1,11,03,03,111,00,04,15,270,00*00",  \* GSV, wrong checksum
   "$GP,123519*36",  \* a 2-character sentence id
   "$GPGGA,12ab19,,N,01131.000,E,1,08,0.9,545.4,M,46.9,M,,*5C",  \* GGA, letters in the time and empty latitude
   "$GPGGA,12ab19,4807.038,N,01131.000,E,1,08,0.9,545.4,M,46.9,M,,*00",  \* GGA, wrong checksum and letters in the time
   "$GPRMC,123519,V,4807.038,N,01131.000,E,022.4,084.4,23ab94,003.1,W*7D",  \* RMC, status V and letters in the date
   "$GPRMC,123519,A,,N,01131.000,E,022.4,084.4,23ab94,003.1,W*74",  \* RMC, letters in the date and empty latitude
   "$GPGGA*56"   \* a single field
  }

\* the dates supplied with a sentence: year, month, day
SuppliedDates ==
  {<<0, 0, 0>>, <<2024, 6, 21>>, <<0, 6, 21>>, <<2024, 0, 21>>, <<2024, 6, 0>>,
   <<2024, 6, 31>>, <<2024, 13, 1>>}

\* input.go NewLocationFromNMEA: the Location of a parse
LocationFromNMEA(pos) ==
  IF pos.err # "nil" THEN [val |-> Location(0, 0), err |-> pos.err]
  ELSE [val |-> Location(pos.Latitude, pos.Longitude), err |-> "nil"]

\* input.go NewTimeFromNMEA: the Time of a parse
TimeFromNMEA(pos) ==
  IF pos.err # "nil" THEN [val |-> ZeroDate, err |-> pos.err]
  ELSE [val |-> pos.Time, err |-> "nil"]

\* the result of a call on a sentence and a supplied date
Parsed(fn, nmea, date, r) ==
  [fn |-> fn, nmea |-> nmea, year |-> date[1], month |-> date[2], day |-> date[3],
   err |-> r.err, val |-> r.val]

\* input.go NewLocationFromNMEA
NewLocationFromNMEA ==
  /\ res = NoResult
  /\ \E nmea \in Sentences, date \in SuppliedDates :
       res' = Parsed("NewLocationFromNMEA", nmea, date,
                     LocationFromNMEA(parseNMEA(nmea, date[1], date[2], date[3])))
  /\ UNCHANGED <<loc, t, calls, frames>>

\* input.go NewTimeFromNMEA
NewTimeFromNMEA ==
  /\ res = NoResult
  /\ \E nmea \in Sentences, date \in SuppliedDates :
       res' = Parsed("NewTimeFromNMEA", nmea, date,
                     TimeFromNMEA(parseNMEA(nmea, date[1], date[2], date[3])))
  /\ UNCHANGED <<loc, t, calls, frames>>

\* MeanSolarNoonFromNMEA: the two constructors, then MeanSolarNoon
NoonFromNMEA(l, tm) ==
  IF l.err # "nil" THEN [val |-> ZeroTime, err |-> l.err]
  ELSE IF tm.err # "nil" THEN [val |-> ZeroTime, err |-> tm.err]
  ELSE [val |-> JulianDayToTime(meanSolarNoonInternal(l.val.longitude, tm.val.day)),
        err |-> "nil"]

\* noon.go MeanSolarNoonFromNMEA
MeanSolarNoonFromNMEA ==
  /\ res = NoResult
  /\ \E nmea \in Sentences \ {LastYear}, date \in SuppliedDates :
       res' = Parsed("MeanSolarNoonFromNMEA", nmea, date,
                     NoonFromNMEA(LocationFromNMEA(parseNMEA(nmea, date[1], date[2], date[3])),
                                  TimeFromNMEA(parseNMEA(nmea, date[1], date[2], date[3]))))
  /\ UNCHANGED <<loc, t, calls, frames>>

NextNMEA ==
  \/ NewLocationFromNMEA
  \/ NewTimeFromNMEA
  \/ MeanSolarNoonFromNMEA
  \/ Discard

SpecNMEA == Init /\ [][NextNMEA]_vars

(***************************************************************************)
(* The functions that take an NMEA sentence in place of a Location and a   *)
(* Time.                                                                   *)
(***************************************************************************)

\* the dates supplied to the functions: none, and 2024-06-21
FromNMEADates == {<<0, 0, 0>>, <<2024, 6, 21>>}

\* the result of a call on a sentence, a supplied date and an elevation or
\* twilight type
Called(fn, nmea, date, arg, r) ==
  [fn |-> fn, nmea |-> nmea, year |-> date[1], month |-> date[2], day |-> date[3],
   arg |-> arg, err |-> r.err, val |-> r.val]

\* DawnFromNMEA returning no error when the sentence does not parse
DawnFromParseSilent(l, tm, twilightType) ==
  IF l.err # "nil" \/ tm.err # "nil" THEN [val |-> ZeroTime, err |-> "nil"]
  ELSE [val |-> dawnInternal(l.val.latitude, l.val.longitude, tm.val.day, twilightType),
        err |-> "nil"]

\* DawnFromNMEA: the two constructors, then Dawn
DawnFromParse(l, tm, twilightType) ==
  IF l.err # "nil" THEN [val |-> ZeroTime, err |-> l.err]
  ELSE IF tm.err # "nil" THEN [val |-> ZeroTime, err |-> tm.err]
  ELSE [val |-> dawnInternal(l.val.latitude, l.val.longitude, tm.val.day, twilightType),
        err |-> "nil"]

\* DuskFromNMEA: the two constructors, then Dusk
DuskFromParse(l, tm, twilightType) ==
  IF l.err # "nil" THEN [val |-> ZeroTime, err |-> l.err]
  ELSE IF tm.err # "nil" THEN [val |-> ZeroTime, err |-> tm.err]
  ELSE [val |-> duskInternal(l.val.latitude, l.val.longitude, tm.val.day, twilightType),
        err |-> "nil"]

\* the two time.Time results of a function as a pair
Both(r) == <<r.t1, r.t2>>

\* DawnDuskFromNMEA: the two constructors, then DawnDusk
DawnDuskFromParse(l, tm, twilightType) ==
  IF l.err # "nil" THEN [val |-> <<ZeroTime, ZeroTime>>, err |-> l.err]
  ELSE IF tm.err # "nil" THEN [val |-> <<ZeroTime, ZeroTime>>, err |-> tm.err]
  ELSE [val |-> Both(dawnDuskInternal(l.val.latitude, l.val.longitude, tm.val.day,
                                      twilightType)),
        err |-> "nil"]

\* TimeOfElevationFromNMEA: the two constructors, then TimeOfElevation
TimeOfElevationFromParse(l, tm, elevation) ==
  IF l.err # "nil" THEN [val |-> <<ZeroTime, ZeroTime>>, err |-> l.err]
  ELSE IF tm.err # "nil" THEN [val |-> <<ZeroTime, ZeroTime>>, err |-> tm.err]
  ELSE [val |-> Both(timeOfElevationInternal(l.val.latitude, l.val.longitude, elevation,
                                             tm.val.day)),
        err |-> "nil"]

\* twilight.go DawnFromNMEA
DawnFromNMEA ==
  /\ res = NoResult
  /\ \E nmea \in Sentences \ {LastYear}, date \in FromNMEADates, twilightType \in TwilightArgs :
       res' = Called("DawnFromNMEA", nmea, date, twilightType,
                     DawnFromParse(LocationFromNMEA(parseNMEA(nmea, date[1], date[2], date[3])),
                                   TimeFromNMEA(parseNMEA(nmea, date[1], date[2], date[3])),
                                   twilightType))
  /\ UNCHANGED <<loc, t, calls, frames>>

\* twilight.go DuskFromNMEA
DuskFromNMEA ==
  /\ res = NoResult
  /\ \E nmea \in Sentences \ {LastYear}, date \in FromNMEADates, twilightType \in TwilightArgs :
       res' = Called("DuskFromNMEA", nmea, date, twilightType,
                     DuskFromParse(LocationFromNMEA(parseNMEA(nmea, date[1], date[2], date[3])),
                                   TimeFromNMEA(parseNMEA(nmea, date[1], date[2], date[3])),
                                   twilightType))
  /\ UNCHANGED <<loc, t, calls, frames>>

\* twilight.go DawnDuskFromNMEA
DawnDuskFromNMEA ==
  /\ res = NoResult
  /\ \E nmea \in Sentences \ {LastYear}, date \in FromNMEADates, twilightType \in TwilightArgs :
       res' = Called("DawnDuskFromNMEA", nmea, date, twilightType,
                     DawnDuskFromParse(LocationFromNMEA(parseNMEA(nmea, date[1], date[2], date[3])),
                                       TimeFromNMEA(parseNMEA(nmea, date[1], date[2], date[3])),
                                       twilightType))
  /\ UNCHANGED <<loc, t, calls, frames>>

\* TimeOfElevationFromNMEA
TimeOfElevationFromNMEA ==
  /\ res = NoResult
  /\ \E nmea \in Sentences \ {LastYear}, date \in FromNMEADates, elevation \in Elevations :
       res' = Called("TimeOfElevationFromNMEA", nmea, date, elevation,
                     TimeOfElevationFromParse(
                       LocationFromNMEA(parseNMEA(nmea, date[1], date[2], date[3])),
                       TimeFromNMEA(parseNMEA(nmea, date[1], date[2], date[3])),
                       elevation))
  /\ UNCHANGED <<loc, t, calls, frames>>

NextFromNMEA ==
  \/ DawnFromNMEA
  \/ DuskFromNMEA
  \/ DawnDuskFromNMEA
  \/ TimeOfElevationFromNMEA
  \/ MeanSolarNoonFromNMEA
  \/ Discard

SpecFromNMEA == Init /\ [][NextFromNMEA]_vars

(***************************************************************************)
(* parseLatitude and parseLongitude as functions of a field and an         *)
(* indicator.                                                              *)
(***************************************************************************)

\* coordinate fields: well formed, empty, without a decimal point, with the
\* point at index 0, 1 and 2, with letters in the degrees and in the
\* minutes, with two points, signed, and with NaN for degrees
PositionFields ==
  {"4807.038", "01131.000", "3351.000", "07030.500", "18000.000", "9000.",
   "", "4807", ".038", "7.038", "07.038", "4x07.038", "48o7.038", "4807.0a8",
   "4807.03.8", "-4807.038", "+4807.038", "48-7.038", "NaN07.038", "nan07.038"}

\* indicators: the four hemispheres, none, lower case, another letter
Indicators == {"N", "S", "E", "W", "", "n", "X"}

\* the result of a call of parseLatitude or parseLongitude
Decoded(fn, field, indicator, r) ==
  [fn |-> fn, field |-> field, indicator |-> indicator, err |-> r.err, val |-> r.val]

\* a call of parseLatitude
CallParseLatitude ==
  /\ res = NoResult
  /\ \E latStr \in PositionFields, nsStr \in Indicators :
       res' = Decoded("parseLatitude", latStr, nsStr, parseLatitude(latStr, nsStr))
  /\ UNCHANGED <<loc, t, calls, frames>>

\* a call of parseLongitude
CallParseLongitude ==
  /\ res = NoResult
  /\ \E lonStr \in PositionFields, ewStr \in Indicators :
       res' = Decoded("parseLongitude", lonStr, ewStr, parseLongitude(lonStr, ewStr))
  /\ UNCHANGED <<loc, t, calls, frames>>

NextPosition ==
  \/ CallParseLatitude
  \/ CallParseLongitude
  \/ Discard

SpecPosition == Init /\ [][NextPosition]_vars

(***************************************************************************)
(* MeanAnomaly as a function of the Julian day                             *)
(***************************************************************************)

\* number of 37-day steps taken from J2000 in either direction
MaxAnomalyStep == 30

\* the days of the Julian days offered to MeanAnomaly: about three years
\* around J2000, 1970-01-01 and 2030-01-01
AnomalyDays ==
  {J2000.day + k * 37 : k \in -MaxAnomalyStep..MaxAnomalyStep}
    \cup {0, 21915}

\* the times of day of the Julian days offered: midnight, noon, 18:00
AnomalyTimes == {0, 43200 * Thousand, 64800 * Thousand}

\* a call of MeanAnomaly
MeanAnomaly ==
  /\ res = NoResult
  /\ \E day \in AnomalyDays, ms \in AnomalyTimes :
       res' = [fn |-> "MeanAnomaly", d |-> [day |-> day, ms |-> ms],
               val |-> meanAnomaly([day |-> day, ms |-> ms])]
  /\ UNCHANGED <<loc, t, calls, frames>>

NextAnomaly ==
  \/ MeanAnomaly
  \/ Discard

SpecAnomaly == Init /\ [][NextAnomaly]_vars

(***************************************************************************)
(* The parser before it was made allocation-free (the second parseNMEA of  *)
(* longitude.go): strings.Split on '*' and on ',', and the fraction of a   *)
(* second padded with zeros to 9 bytes.  validateChecksum, parseLatitude   *)
(* and parseLongitude are the same in both.                                *)
(***************************************************************************)

RECURSIVE SplitOn(_, _, _)
\* strings.Split(s, sep), idx the position of the first sep in s
SplitOn(s, sep, idx) ==
  IF idx = 0 THEN <<s>>
  ELSE <<SubSeq(s, 1, idx - 1)>>
         \o SplitOn(SubSeq(s, idx + 1, Len(s)), sep,
                    IndexByte(SubSeq(s, idx + 1, Len(s)), sep))

\* strings.Split
Split(s, sep) == SplitOn(s, sep, IndexByte(s, sep))

\* parseNMEATime: fracStr padded with "0" to 9 bytes, then cut to 9 bytes
Padded(fracStr) == SubSeq(fracStr \o "000000000", 1, 9)

\* parseNMEATime: the fraction when the 7th byte is a point
FractionOriginal(timeStr) ==
  IF Len(timeStr) > 7 /\ At(timeStr, 7) = "."
  THEN Atoi(Padded(SubSeq(timeStr, 8, Len(timeStr))))
  ELSE [ok |-> TRUE, val |-> 0]

\* parseNMEATime
parseNMEATimeOriginal(timeStr, year, month, day) ==
  IF Len(timeStr) < 6 THEN [err |-> "ErrInvalidDate", Time |-> ZeroDate]
  ELSE TimeOf(Atoi(SubSeq(timeStr, 1, 2)), Atoi(SubSeq(timeStr, 3, 4)),
              Atoi(SubSeq(timeStr, 5, 6)), FractionOriginal(timeStr), year, month, day)

\* parseGGA
parseGGAOriginal(fields, year, month, day) ==
  IF Len(fields) < 7 THEN Failure("ErrInvalidNMEA")
  ELSE IF year = 0 \/ month = 0 \/ day = 0 THEN Failure("ErrInvalidDate")
  ELSE Position(parseNMEATimeOriginal(fields[2], year, month, day),
                parseLatitude(fields[3], fields[4]),
                parseLongitude(fields[5], fields[6]))

\* parseRMC: the date numbers checked, then time, latitude and longitude
RMCPositionOriginal(fields, day, monthInt, year) ==
  IF ~day.ok \/ ~monthInt.ok \/ ~year.ok THEN Failure("ErrInvalidDate")
  ELSE Position(parseNMEATimeOriginal(fields[2], Century(year.val), monthInt.val, day.val),
                parseLatitude(fields[4], fields[5]),
                parseLongitude(fields[6], fields[7]))

\* parseRMC
parseRMCOriginal(fields) ==
  IF Len(fields) < 10 THEN Failure("ErrInvalidNMEA")
  ELSE IF fields[3] # "A" THEN Failure("ErrInvalidNMEA")
  ELSE IF Len(fields[10]) # 6 THEN Failure("ErrInvalidDate")
  ELSE RMCPositionOriginal(fields, Atoi(SubSeq(fields[10], 1, 2)),
                           Atoi(SubSeq(fields[10], 3, 4)), Atoi(SubSeq(fields[10], 5, 6)))

\* parseNMEA: the field count, the sentence id and the sentence type
ParseFieldsOriginal(fields, year, month, day) ==
  IF Len(fields) < 2 THEN Failure("ErrInvalidNMEA")
  ELSE IF Len(fields[1]) < 3 THEN Failure("ErrInvalidNMEA")
  ELSE IF SubSeq(fields[1], Len(fields[1]) - 2, Len(fields[1])) = "GGA"
       THEN parseGGAOriginal(fields, year, month, day)
  ELSE IF SubSeq(fields[1], Len(fields[1]) - 2, Len(fields[1])) = "RMC"
       THEN parseRMCOriginal(fields)
  ELSE Failure("ErrUnsupportedSentence")

\* parseNMEA: the two parts around the '*' and the checksum
ParsePartsOriginal(parts, year, month, day) ==
  IF Len(parts) # 2 THEN Failure("ErrInvalidNMEA")
  ELSE IF validateChecksum(parts[1], parts[2]) # "nil"
       THEN Failure(validateChecksum(parts[1], parts[2]))
  ELSE ParseFieldsOriginal(Split(parts[1], ","), year, month, day)

\* parseNMEA: the prefix of the trimmed sentence
ParseTrimmedOriginal(nmea, year, month, day) ==
  IF nmea = "" \/ At(nmea, 1) # "$" THEN Failure("ErrInvalidNMEA")
  ELSE ParsePartsOriginal(Split(Tail(nmea), "*"), year, month, day)

\* parseNMEA
parseNMEAOriginal(nmea, year, month, day) ==
  ParseTrimmedOriginal(TrimSpace(nmea), year, month, day)

\* sentences with a fraction of a second of several forms and with 20 fields
\* and more
LongSentences ==
  {"$GPGGA,123519.-,4807.038,N,01131.000,E,1,08,0.9,545.4,M,46.9,M,,*44",  \* GGA, a fraction that is a minus sign
   "$GPGGA,123519.+,4807.038,N,01131.000,E,1,08,0.9,545.4,M,46.9,M,,*42",  \* GGA, a fraction that is a plus sign
   "$GPGGA,123519.5,4807.038,N,01131.000,E,1,08,0.9,545.4,M,46.9,M,,*5C",  \* GGA, a fraction of one digit
   "$GPGGA,123519.1234567891,4807.038,N,01131.000,E,1,08,0.9,545.4,M,46.9,M,,*69",  \* GGA, a fraction of ten digits
   "$GPGGA,123519.-123456789,4807.038,N,01131.000,E,1,08,0.9,545.4,M,46.9,M,,*75",  \* GGA, a signed fraction of ten bytes
   "$GPGGA,123519.5x,4807.038,N,01131.000,E,1,08,0.9,545.4,M,46.9,M,,*24",  \* GGA, a fraction with a letter
   "$GPGGA,123519,4807.038,N,01131.000,E,1,08,0.9,545.4,M,46.9,M,,,1,2,3,4,5,6,7,8,9,10*77",  \* GGA, 25 fields
   "$GPRMC,123519,A,4807.038,N,01131.000,E,022.4,084.4,230394,003.1,W,A,1,2,3,4,5,6,7,8,9*1A",  \* RMC, 22 fields
   "$GPGSV,3,1,11,03,03,111,00,04,15,270,00,06,01,010,00,13,06,292,00*74"   \* GSV, 20 fields
  }

\* sentences offered to splitNMEAFields: without a comma, with leading,
\* trailing and adjacent commas, and with 18 to 24 commas
SplitInputs ==
  {"",
   "GPGGA",
   ",",
   "GPGGA,",
   ",GPGGA",
   "GPGGA,123519,,N",
   "0,1,2,3,4,5,6,7,8,9,10,11,12,13,14,15,16,17,18",
   "0,1,2,3,4,5,6,7,8,9,10,11,12,13,14,15,16,17,18,19",
   "0,1,2,3,4,5,6,7,8,9,10,11,12,13,14,15,16,17,18,19,20",
   "0,1,2,3,4,5,6,7,8,9,10,11,12,13,14,15,16,17,18,19,20,21,22,23,24",
   ",,,,,,,,,,,,,,,,,,",
   ",,,,,,,,,,,,,,,,,,,",
   ",,,,,,,,,,,,,,,,,,,,",
   "0,1,2,3,4,5,6,7,8,9,10,11,12,13,14,15,16,17,18,19,",
   "GPGGA,123519,4807.038,N,01131.000,E,1,08,0.9,545.4,M,46.9,M,,"}

\* a call of splitNMEAFields: n and fields[:n]
CallSplitNMEAFields ==
  /\ res = NoResult
  /\ \E sentence \in SplitInputs :
       res' = [fn |-> "splitNMEAFields", s |-> sentence,
               n |-> Len(splitNMEAFields(sentence)),
               fields |-> splitNMEAFields(sentence)]
  /\ UNCHANGED <<loc, t, calls, frames>>

\* a call of each parseNMEA on the same sentence and supplied date
CallParseNMEA ==
  /\ res = NoResult
  /\ \E nmea \in Sentences \cup LongSentences, date \in SuppliedDates :
       res' = [fn |-> "parseNMEA", nmea |-> nmea,
               year |-> date[1], month |-> date[2], day |-> date[3],
               pos |-> parseNMEA(nmea, date[1], date[2], date[3]),
               original |-> parseNMEAOriginal(nmea, date[1], date[2], date[3])]
  /\ UNCHANGED <<loc, t, calls, frames>>

NextParsers ==
  \/ CallParseNMEA
  \/ CallSplitNMEAFields
  \/ Discard

SpecParsers == Init /\ [][NextParsers]_vars

(***************************************************************************)
(* hourAngle as a function of latitude and declination                     *)
(***************************************************************************)

\* latitudes of the hour-angle table: the poles, the test latitudes and 45
HourAngleLatitudes ==
  {-90000000, -75000000, -45000000, 0, 43650000, 45000000, 52000000,
   65729824, 75000000, 90000000}

\* declinations: the test values, the solstices, the values at which the
\* ratio is exactly 1 (latitude 45), exactly -1 (latitude 0), and at which
\* the numerator is 0 at the pole, and 90 degrees
Declinations ==
  {-45830250, -23016890, -22977530, -20000000, -830280, 0, 4753740,
   20000000, 23440000, 89169727, 90000000}

\* a call of hourAngle
HourAngle ==
  /\ res = NoResult
  /\ \E latitude \in HourAngleLatitudes, decl \in Declinations :
       res' = [fn |-> "hourAngle", latitude |-> latitude, declination |-> decl,
               val |-> hourAngle(latitude, decl)]
  /\ UNCHANGED <<loc, t, calls, frames>>

NextHourAngle ==
  \/ HourAngle
  \/ Discard

SpecHourAngle == Init /\ [][NextHourAngle]_vars

(***************************************************************************)
(* Properties                                                              *)
(***************************************************************************)

\* the orbital chain of the pending query's location and date
CallDay == SolarDay(loc.longitude, DateOf(t))

\* the hour-angle ratio of the pending query for the sine of a target elevation
CallRatio(sinTarget) == HourAngleRatio(sinTarget, loc.latitude, CallDay.declination)

Above(ratio) == ~IsNaN(ratio) /\ ratio > Scale

Below(ratio) == ~IsNaN(ratio) /\ ratio < -Scale

Within(ratio) == ~IsNaN(ratio) /\ ratio >= -Scale /\ ratio <= Scale

\* the outcome the hour-angle ratio prescribes for a result r of SunriseSunset
Prescribed(r, ratio, tr) ==
  /\ Above(ratio) => r.err = "ErrSunNeverRises" /\ r.t1 = ZeroTime /\ r.t2 = ZeroTime
  /\ Below(ratio) => r.err = "ErrSunNeverSets" /\ r.t1 = ZeroTime /\ r.t2 = ZeroTime
  /\ Within(ratio) =>
       /\ r.err = "nil"
       /\ r.t1 = JulianDayToTime(JDPlus(tr, -DegToMs(Acos(ratio))))
       /\ r.t2 = JulianDayToTime(JDPlus(tr, DegToMs(Acos(ratio))))
  /\ IsNaN(ratio) => r.err = "nil"

\* C1: SunriseSunset returns ErrSunNeverRises and two zero times when the
\* hour-angle ratio exceeds 1, ErrSunNeverSets and two zero times when it is
\* below -1, and otherwise a nil error with sunrise = transit - angle/360 days
\* and sunset = transit + angle/360 days, angle = acos(ratio) in degrees.
C1_SunriseSunsetOutcome ==
  res.fn = "SunriseSunset" =>
    Prescribed(res, CallRatio(SunriseCorrectionAngle), CallDay.transit)

\* C1 witness: polar night at Svalbard (78.2232 N) on 2024-12-21
C1_Witness ==
  /\ res.fn = "SunriseSunset"
  /\ loc.latitude = 78223200
  /\ DateOf(t) = 20078
  /\ Above(CallRatio(SunriseCorrectionAngle))
  /\ res.err = "ErrSunNeverRises"

\* the outcome the hour-angle ratio prescribes for the error of Sunrise or Sunset
SharedError(err, instant, ratio) ==
  /\ err \in {"nil", "ErrSunNeverRises", "ErrSunNeverSets"}
  /\ (err = "ErrSunNeverRises") <=> Above(ratio)
  /\ (err = "ErrSunNeverSets") <=> Below(ratio)
  /\ (err = "nil") <=> (instant # ZeroTime)

\* C2 as claimed: Sunrise never reports ErrSunNeverSets and Sunset never
\* reports ErrSunNeverRises.
C2_Original ==
  /\ res.fn = "Sunrise" => res.err # "ErrSunNeverSets"
  /\ res.fn = "Sunset" => res.err # "ErrSunNeverRises"

\* C2 amended: Sunrise and Sunset each report the instant with a nil error, or
\* the zero time with the error of the day: ErrSunNeverRises exactly when the
\* hour-angle ratio exceeds 1 and ErrSunNeverSets exactly when it is below -1,
\* Sunrise and Sunset alike.
C2_SharedError ==
  /\ res.fn = "Sunrise" => SharedError(res.err, res.t1, CallRatio(SunriseCorrectionAngle))
  /\ res.fn = "Sunset" => SharedError(res.err, res.t2, CallRatio(SunriseCorrectionAngle))

\* C2 witness: Sunrise at Igloolik (69.332144 N) on 2024-06-21, midnight sun
C2_Witness ==
  /\ res.fn = "Sunrise"
  /\ loc.latitude = 69332144
  /\ DateOf(t) = FirstDay
  /\ Below(CallRatio(SunriseCorrectionAngle))
  /\ res.err = "ErrSunNeverSets"

\* the target is reported unreachable, by both instants, exactly when the
\* ratio lies outside [-1, 1]
Unreachable(r, ratio) ==
  /\ (r.t1 = ZeroTime) <=> (r.t2 = ZeroTime)
  /\ (r.t1 = ZeroTime) <=> (Above(ratio) \/ Below(ratio))
  /\ Within(ratio) => r.t1 # ZeroTime /\ r.t2 # ZeroTime

\* C3: TimeOfElevation returns the zero time for both morning and evening,
\* never for only one of them, exactly when |ratio| > 1, ratio =
\* (sin(target) - sin(lat)*sin(decl)) / (cos(lat)*cos(decl)); for every ratio
\* in [-1, 1] it returns two non-zero instants.
C3_Unreachable ==
  res.fn = "TimeOfElevation" => Unreachable(res, CallRatio(Sin(res.elevation)))

\* C3 witness: 61.93 degrees is never reached at Toronto on 2024-12-21
C3_Witness ==
  /\ res.fn = "TimeOfElevation"
  /\ res.elevation = 61930000
  /\ loc.latitude = 43650000
  /\ DateOf(t) = 20078
  /\ Above(CallRatio(Sin(res.elevation)))
  /\ res.t1 = ZeroTime
  /\ res.t2 = ZeroTime

\* C4 as claimed: the value a returned by Azimuth satisfies 0 <= a < 360.
C4_AzimuthRange ==
  res.fn = "Azimuth" =>
    ~IsNaN(res.val) /\ res.val >= 0 /\ res.val < FullCircleDegrees

\* the hour angle azimuthInternal computes for the pending query's instant
CallHourAngle == InstantHourAngle(TimeToJulianDay(t), CallDay.transit)

\* an hour angle brought into [-180, 180) degrees: negative from local solar
\* midnight to the transit (rising half), non-negative from the transit to
\* local solar midnight (setting half)
LocalHourAngle(ha) == ((ha + HalfCircleDegrees) % FullCircleDegrees) - HalfCircleDegrees

\* the azimuth lies in the eastern half for a rising sun, in the western half
\* for a setting sun, and the hour angle is non-negative exactly when setting
Halves(azimuth, ha, local) ==
  /\ (ha >= 0) <=> (local >= 0)
  /\ local < 0 => azimuth >= 0 /\ azimuth <= HalfCircleDegrees
  /\ local >= 0 => azimuth >= HalfCircleDegrees /\ azimuth <= FullCircleDegrees

\* C5 as claimed: the hour angle is non-negative exactly in the local
\* afternoon/evening, so every instant of the rising half of the local solar
\* day yields an azimuth in [0, 180] and every instant of the setting half an
\* azimuth in [180, 360], for every longitude and every time of day in UTC.
C5_Halves ==
  (res.fn = "Azimuth" /\ ~IsNaN(res.val)) =>
    Halves(res.val, CallHourAngle, LocalHourAngle(CallHourAngle))

\* the solar transit of the pending query's day, as an instant
CallTransit == JulianDayToTime(CallDay.transit)

\* the sunrise and sunset of the pending query's day
CallSunriseSunset == sunriseSunsetInternal(loc.latitude, loc.longitude, DateOf(t))

\* the crossings of an elevation on the pending query's day
CallCrossings(elevation) ==
  timeOfElevationInternal(loc.latitude, loc.longitude, elevation, DateOf(t))

\* the dawn and dusk of one twilight type on the pending query's day
CallTwilight(tt) == dawnDuskInternal(loc.latitude, loc.longitude, DateOf(t), <<tt>>)

\* the sun rises and sets and the three twilights occur
AllOccur(r, c, n, a) ==
  /\ r.err = "nil"
  /\ r.t1 # NaNTime
  /\ c.t1 # ZeroTime
  /\ n.t1 # ZeroTime
  /\ a.t1 # ZeroTime

\* the order C6 claims
ClaimedOrder(r, noon, c, n, a) ==
  /\ c.t1 < n.t1 /\ n.t1 < a.t1 /\ a.t1 < r.t1
  /\ r.t1 < noon /\ noon < r.t2
  /\ r.t2 < a.t2 /\ a.t2 < n.t2 /\ n.t2 < c.t2

\* the order of the day: deeper twilights are further from the transit
DayOrder(r, noon, c, n, a) ==
  /\ a.t1 < n.t1 /\ n.t1 < c.t1 /\ c.t1 < r.t1
  /\ r.t1 <= noon /\ noon <= r.t2
  /\ r.t2 < c.t2 /\ c.t2 < n.t2 /\ n.t2 < a.t2

\* C6 as claimed: for any non-polar (location, date), dawn(civil) <
\* dawn(nautical) < dawn(astronomical) < sunrise < transit < sunset <
\* dusk(astronomical) < dusk(nautical) < dusk(civil).
C6_Original ==
  (res.fn = "SunriseSunset"
     /\ AllOccur(res, CallTwilight("Civil"), CallTwilight("Nautical"),
                 CallTwilight("Astronomical"))) =>
    ClaimedOrder(res, CallTransit, CallTwilight("Civil"), CallTwilight("Nautical"),
                 CallTwilight("Astronomical"))

\* C6 amended: for any (location, date) on which the sun rises and sets and
\* the three twilights occur, dawn(astronomical) < dawn(nautical) <
\* dawn(civil) < sunrise <= transit <= sunset < dusk(civil) < dusk(nautical)
\* < dusk(astronomical), instants compared to the second.
C6_DayOrder ==
  (res.fn = "SunriseSunset"
     /\ AllOccur(res, CallTwilight("Civil"), CallTwilight("Nautical"),
                 CallTwilight("Astronomical"))) =>
    DayOrder(res, CallTransit, CallTwilight("Civil"), CallTwilight("Nautical"),
             CallTwilight("Astronomical"))

\* C6 witness: Toronto on 2024-12-21, all nine events of the day
C6_Witness ==
  /\ res.fn = "SunriseSunset"
  /\ loc.latitude = 43650000
  /\ DateOf(t) = 20078
  /\ AllOccur(res, CallTwilight("Civil"), CallTwilight("Nautical"),
              CallTwilight("Astronomical"))
  /\ CallTwilight("Astronomical").t1 < res.t1
  /\ res.t2 < CallTwilight("Astronomical").t2

\* the place of one twilight's dawn and dusk among the other events of the day
Nested(tt, d, r, c, n, a) ==
  /\ tt = "Civil" => n.t1 < d.t1 /\ d.t1 < r.t1 /\ r.t2 < d.t2 /\ d.t2 < n.t2
  /\ tt = "Nautical" => a.t1 < d.t1 /\ d.t1 < c.t1 /\ c.t2 < d.t2 /\ d.t2 < a.t2
  /\ tt = "Astronomical" => d.t1 < n.t1 /\ n.t2 < d.t2

\* C7: where all of them occur, Dawn(Astronomical) < Dawn(Nautical) <
\* Dawn(Civil) < Sunrise and Sunset < Dusk(Civil) < Dusk(Nautical) <
\* Dusk(Astronomical): the pair DawnDusk returns for a twilight type lies
\* outside the pair of every shallower event and inside that of every deeper.
C7_TwilightOrder ==
  (res.fn = "DawnDusk"
     /\ AllOccur(CallSunriseSunset, CallCrossings(CivilTwilightAngle),
                 CallCrossings(NauticalTwilightAngle),
                 CallCrossings(AstronomicalTwilightAngle))) =>
    Nested(FirstTwilightType(res.twilightType), res, CallSunriseSunset,
           CallCrossings(CivilTwilightAngle), CallCrossings(NauticalTwilightAngle),
           CallCrossings(AstronomicalTwilightAngle))

\* C7 witness: the nautical dawn and dusk of Toronto on 2024-12-21
C7_Witness ==
  /\ res.fn = "DawnDusk"
  /\ res.twilightType = <<"Nautical">>
  /\ loc.latitude = 43650000
  /\ DateOf(t) = 20078
  /\ res.t1 # ZeroTime
  /\ CallCrossings(AstronomicalTwilightAngle).t1 # ZeroTime
  /\ CallSunriseSunset.err = "nil"
  /\ res.t1 < CallSunriseSunset.t1

\* the angle between the transit and each crossing of a target, in degrees
CallHalfAngle(sinTarget) == Acos(CallRatio(sinTarget))

\* the morning instant is strictly before the evening instant
Before(r) == r.t1 < r.t2

\* the morning instant is not after the evening instant, and the two are the
\* same second only when the crossings are less than a second apart
NotAfter(r, ha) ==
  /\ r.t1 <= r.t2
  /\ r.t1 = r.t2 => 2 * DegToMs(ha) < Thousand

\* C8 as claimed: whenever SunriseSunset returns a nil error the sunrise is
\* strictly before the sunset, and whenever TimeOfElevation or DawnDusk return
\* non-zero times the morning time is strictly before the evening time, also
\* at longitudes near +/-180 degrees.
C8_Original ==
  /\ (res.fn = "SunriseSunset" /\ res.err = "nil") => Before(res)
  /\ (res.fn \in {"TimeOfElevation", "DawnDusk"} /\ res.t1 # ZeroTime) => Before(res)

\* C8 amended: whenever SunriseSunset returns a nil error the sunrise is not
\* after the sunset, and whenever TimeOfElevation or DawnDusk return non-zero
\* times the morning time is not after the evening time, also at longitudes
\* near +/-180 degrees; the two instants are equal only on a day the sun just
\* touches the target elevation at the transit (crossings under a second apart).
C8_NotAfter ==
  /\ (res.fn = "SunriseSunset" /\ res.err = "nil" /\ res.t1 # NaNTime) =>
       NotAfter(res, CallHalfAngle(SunriseCorrectionAngle))
  /\ (res.fn = "TimeOfElevation" /\ res.t1 # ZeroTime) =>
       NotAfter(res, CallHalfAngle(Sin(res.elevation)))
  /\ (res.fn = "DawnDusk" /\ res.t1 # ZeroTime) =>
       NotAfter(res, CallHalfAngle(Sin(twilightAngle(FirstTwilightType(res.twilightType)))))

\* C8 witness: sunrise and sunset of 2024-12-21 at 67.390446 N, 15.6267 E,
\* where the sun touches the horizon at the transit
C8_Witness ==
  /\ res.fn = "SunriseSunset"
  /\ loc = Location(67390446, 15626700)
  /\ DateOf(t) = 20078
  /\ res.err = "nil"
  /\ res.t1 = res.t2

\* C8 witness of the ordinary day at longitude 180: the two instants fall on
\* different UTC days
C8_DateLine ==
  /\ res.fn = "SunriseSunset"
  /\ loc.longitude = HalfCircleDegrees
  /\ res.err = "nil"
  /\ res.t1 < res.t2
  /\ DateOf(res.t1) # DateOf(res.t2)

\* the elevation the claims give for a twilight argument
ClaimedAngle(twilightType) ==
  IF twilightType = <<"Nautical">> THEN -12 * Scale
  ELSE IF twilightType = <<"Astronomical">> THEN -18 * Scale
  ELSE -6 * Scale

\* a (dawn, dusk) pair is the pair of the separate calls and the pair of
\* crossings of the claimed elevation
SamePair(r, dawn, dusk, e) ==
  /\ r.t1 = dawn /\ r.t2 = dusk
  /\ r.t1 = e.t1 /\ r.t2 = e.t2

\* C9: DawnDusk(loc, t, tt) returns exactly (Dawn(loc, t, tt), Dusk(loc, t,
\* tt)), and these equal the morning and evening results of TimeOfElevation
\* at -6, -12 and -18 degrees for Civil, Nautical and Astronomical, the case
\* where both are the zero time included.
C9_DawnDuskPair ==
  /\ (res.fn = "DawnDusk" /\ Len(res.twilightType) <= 1) =>
       SamePair(res,
                dawnInternal(loc.latitude, loc.longitude, DateOf(t), res.twilightType),
                duskInternal(loc.latitude, loc.longitude, DateOf(t), res.twilightType),
                CallCrossings(ClaimedAngle(res.twilightType)))
  /\ (res.fn = "Dawn" /\ Len(res.twilightType) <= 1) =>
       res.t1 = CallCrossings(ClaimedAngle(res.twilightType)).t1
  /\ (res.fn = "Dusk" /\ Len(res.twilightType) <= 1) =>
       res.t2 = CallCrossings(ClaimedAngle(res.twilightType)).t2

\* C9 witness: the astronomical twilight of Toronto on 2024-12-21
C9_Witness ==
  /\ res.fn = "DawnDusk"
  /\ res.twilightType = <<"Astronomical">>
  /\ loc.latitude = 43650000
  /\ DateOf(t) = 20078
  /\ res.t1 # ZeroTime
  /\ res.t1 = CallCrossings(-18 * Scale).t1

\* C9 witness of the zero case: no nautical twilight at Longyearbyen
\* (78.2232 N) on 2024-06-21
C9_ZeroCase ==
  /\ res.fn = "DawnDusk"
  /\ res.twilightType = <<"Nautical">>
  /\ loc.latitude = 78223200
  /\ DateOf(t) = FirstDay
  /\ res.t1 = ZeroTime
  /\ res.t2 = ZeroTime

\* the elevation of the sunrise and sunset preset, -50/60 degrees
SunriseElevation == -((50 * Scale) \div 60)

\* both report no crossing, or both report instants at most 2 seconds apart
Equivalent(r, e) ==
  /\ (r.err # "nil") <=> (e.t1 = ZeroTime /\ e.t2 = ZeroTime)
  /\ r.err = "nil" => Abs(r.t1 - e.t1) <= 2 /\ Abs(r.t2 - e.t2) <= 2

\* C10 as claimed: SunriseSunset(loc, t) is equivalent to TimeOfElevation(loc,
\* -50/60 degrees, t): both report no crossing, or both return instants that
\* agree within 2 seconds.
C10_Equivalent ==
  res.fn = "SunriseSunset" => Equivalent(res, CallCrossings(SunriseElevation))

\* C11: for any UTC instant t with whole-second precision,
\* JulianDayToTime(TimeToJulianDay(t)) equals t to within 1 second.
C11_RoundTrip ==
  (res.fn = "JulianDayToTime" /\ res.origin # <<>>) =>
    Abs(res.val - res.origin[1]) <= 1

\* C11 witness: a round trip that returns the second before the instant
C11_Witness ==
  /\ res.fn = "JulianDayToTime"
  /\ res.origin = <<FirstDay * secondsInADay + 43200>>
  /\ res.val = res.origin[1] - 1

\* the latest whole second not after the instant a Julian day denotes
FloorSecond(d) == d.day * secondsInADay + (d.ms \div Thousand)

\* C12 as claimed: JulianDayToTime returns the latest whole second that is
\* not after the exact instant denoted by the Julian day (floor of the
\* Unix-seconds value), for Julian days after and before the Unix epoch alike.
C12_Floor ==
  res.fn = "JulianDayToTime" => res.val = FloorSecond(res.d)

\* the elevation Elevation returns for the pending query's location at an instant
CallElevation(when) == elevationInternal(loc.latitude, loc.longitude, when)

\* an elevation is a number within 2 degrees of the target
Near(elevation, target) ==
  ~IsNaN(elevation) /\ Abs(elevation - target) <= 2 * Scale

\* C13: for any location, date and target elevation for which
\* TimeOfElevation returns non-zero instants, Elevation(loc, morning) and
\* Elevation(loc, evening) are each within 2 degrees of the target.
C13_ElevationAtCrossings ==
  (res.fn = "TimeOfElevation" /\ res.t1 # ZeroTime /\ res.t2 # ZeroTime) =>
    /\ Near(CallElevation(res.t1), res.elevation)
    /\ Near(CallElevation(res.t2), res.elevation)

\* C13 witness: the crossings of 61.93 degrees at Toronto on 2024-06-21
C13_Witness ==
  /\ res.fn = "TimeOfElevation"
  /\ res.elevation = 61930000
  /\ loc = Location(43650000, -79380000)
  /\ DateOf(t) = FirstDay
  /\ res.t1 # ZeroTime
  /\ res.t1 < res.t2
  /\ Near(CallElevation(res.t1), res.elevation)

\* C13 witness at the date line: the morning crossing falls on the UTC day
\* before the date of the query
C13_DateLine ==
  /\ res.fn = "TimeOfElevation"
  /\ loc.longitude = HalfCircleDegrees
  /\ res.t1 # ZeroTime
  /\ DateOf(res.t1) # DateOf(t)
  /\ Near(CallElevation(res.t1), res.elevation)

\* the solar declination of the pending query's day, counted positive toward
\* the pole of the location's hemisphere
SummerDeclination == Sgn(loc.latitude) * CallDay.declination

\* C14 as claimed: SunriseSunset yields the never-sets outcome only on summer
\* dates and the never-rises outcome only on winter dates (for a northern
\* latitude never-sets requires positive solar declination, never-rises
\* negative solar declination; mirrored for a southern latitude).
C14_Original ==
  res.fn = "SunriseSunset" =>
    /\ res.err = "ErrSunNeverSets" => SummerDeclination > 0
    /\ res.err = "ErrSunNeverRises" => SummerDeclination < 0

\* C14 amended: for a northern latitude the never-rises outcome requires
\* negative solar declination, and the never-sets outcome requires a solar
\* declination above -1 degree, positive at every latitude up to 89 degrees:
\* within a degree of the pole the sun never sets down to a declination about
\* 0.83 degrees below zero; mirrored for a southern latitude.
C14_PolarSeasons ==
  res.fn = "SunriseSunset" =>
    /\ res.err = "ErrSunNeverRises" => SummerDeclination < 0
    /\ res.err = "ErrSunNeverSets" =>
         /\ SummerDeclination > -Scale
         /\ Abs(loc.latitude) <= 89 * Scale => SummerDeclination > 0

\* C14 witness: midnight sun at Longyearbyen (78.2232 N) on 2024-06-21
C14_Witness ==
  /\ res.fn = "SunriseSunset"
  /\ loc.latitude = 78223200
  /\ DateOf(t) = FirstDay
  /\ res.err = "ErrSunNeverSets"
  /\ SummerDeclination > 0

\* C14 witness of the winter outcome, in the southern hemisphere: polar night
\* at 78.2232 S on 2024-06-21
C14_South ==
  /\ res.fn = "SunriseSunset"
  /\ loc.latitude = -78223200
  /\ DateOf(t) = FirstDay
  /\ res.err = "ErrSunNeverRises"
  /\ SummerDeclination < 0

\* C14 witness at the pole: the sun does not set on 2024-09-23, the solar
\* declination being negative
C14_Pole ==
  /\ res.fn = "SunriseSunset"
  /\ loc.latitude = QuarterCircleDegrees
  /\ DateOf(t) = 19989
  /\ res.err = "ErrSunNeverSets"
  /\ SummerDeclination < 0

\* the result a call of SunriseSunset returns when it runs alone
Alone(args) == sunriseSunsetInternal(args.latitude, args.longitude, args.day)

OutOfRange ==
  \/ Abs(loc.latitude) > QuarterCircleDegrees
  \/ Abs(loc.longitude) > HalfCircleDegrees

\* a result of the normal result type of its query: an instant with a nil
\* error or the zero time with ErrSunNeverRises or ErrSunNeverSets; two
\* instants or two zero times; a float64
NormalResult(r) ==
  /\ r.fn \in {"Sunrise", "Sunset", "SunriseSunset"} =>
       /\ r.err \in {"nil", "ErrSunNeverRises", "ErrSunNeverSets"}
       /\ r.fn # "Sunset" => ((r.err = "nil") <=> (r.t1 # ZeroTime))
       /\ r.fn # "Sunrise" => ((r.err = "nil") <=> (r.t2 # ZeroTime))
  /\ r.fn \in {"TimeOfElevation", "DawnDusk"} =>
       ((r.t1 = ZeroTime) <=> (r.t2 = ZeroTime))
  /\ r.fn \in {"Elevation", "Azimuth"} =>
       (IsNaN(r.val) \/ Abs(r.val) <= FullCircleDegrees)

\* C16: out-of-range coordinates are never rejected: NewLocation stores any
\* latitude and longitude unchanged, and every core query called with such a
\* Location returns through its normal result type, the only failure outcomes
\* being never-rises, never-sets and unreachable elevation.
C16_Unvalidated ==
  /\ res.fn = "NewLocation" =>
       loc.latitude = res.latitude /\ loc.longitude = res.longitude
  /\ (res.fn # "none" /\ res.fn # "NewLocation" /\ OutOfRange) => NormalResult(res)

\* C16 witness: sunrise and sunset returned for latitude 100, longitude 200
C16_Witness ==
  /\ res.fn = "SunriseSunset"
  /\ loc = [latitude |-> 100 * Scale, longitude |-> 200 * Scale]
  /\ res.err = "nil"
  /\ res.t1 # ZeroTime

\* C16 witness of the stored coordinates
C16_Stored ==
  /\ res.fn = "NewLocation"
  /\ res.latitude = -135 * Scale
  /\ res.longitude = -540 * Scale
  /\ loc.latitude = -135 * Scale
  /\ loc.longitude = -540 * Scale

\* C17 as claimed: for every date and every longitude in [-180, 180], the
\* instant returned by MeanSolarNoon falls on the same UTC calendar date as
\* the given date.
C17_Original ==
  (res.fn = "MeanSolarNoon" /\ Abs(res.longitude) <= HalfCircleDegrees) =>
    DateOf(res.val) = res.day

\* C17 amended: for every date and every longitude in [-179.99, 180], the
\* instant returned by MeanSolarNoon falls on the same UTC calendar date as
\* the given date; at longitude -180 it is 00:00:00 UTC of the following date.
C17_SameDate ==
  /\ (res.fn = "MeanSolarNoon" /\ res.longitude >= -179990000
        /\ res.longitude <= HalfCircleDegrees) =>
       DateOf(res.val) = res.day
  /\ (res.fn = "MeanSolarNoon" /\ res.longitude = -HalfCircleDegrees) =>
       res.val = (res.day + 1) * secondsInADay

\* C17 witness: at longitude 180 the mean solar noon of 2024-06-21 is
\* 00:00:00 UTC of that date
C17_Witness ==
  /\ res.fn = "MeanSolarNoon"
  /\ res.longitude = HalfCircleDegrees
  /\ res.day = FirstDay
  /\ res.val = FirstDay * secondsInADay

\* C17 witness before 1970: at longitude -179.99 the mean solar noon of
\* 1969-12-31 is 23:59:58 UTC of that date
C17_Before1970 ==
  /\ res.fn = "MeanSolarNoon"
  /\ res.longitude = -179990000
  /\ res.day = -1
  /\ res.val = -2

\* the functions that read an NMEA sentence
FromNMEA == {"NewLocationFromNMEA", "NewTimeFromNMEA", "MeanSolarNoonFromNMEA"}

\* the sentence of the pending call without the blanks around it
Trimmed == TrimSpace(res.nmea)

\* the sentence has the leading '$' and one '*'
Delimited == Trimmed # "" /\ At(Trimmed, 1) = "$" /\ Cardinality(Positions(Trimmed, "*")) = 1

\* the bytes strictly between the leading '$' and the '*'
Body == SubSeq(Trimmed, 2, IndexByte(Trimmed, "*") - 1)

\* the bytes after the '*'
Trailer == SubSeq(Trimmed, IndexByte(Trimmed, "*") + 1, Len(Trimmed))

\* the comma-separated pieces of the body
Pieces == splitNMEAFields(Body)

\* s is one or more hexadecimal digits
IsHex(s) == s # "" /\ \A i \in 1..Len(s) : HexDigit(At(s, i)) >= 0

RECURSIVE HexValue(_, _)
\* the value of the first n hexadecimal digits of s
HexValue(s, n) == IF n = 0 THEN 0 ELSE 16 * HexValue(s, n - 1) + HexDigit(At(s, n))

\* the checksum of the sentence is the XOR of its body
SumMatches == IsHex(Trailer) /\ HexValue(Trailer, Len(Trailer)) = XorOver(Body, 1, Len(Body))

\* the sentence id id ends in type
EndsIn(id, type) == Len(id) >= 3 /\ SubSeq(id, Len(id) - 2, Len(id)) = type

\* the sentence id of the pending call's sentence ends in type
OfType(type) == \A id \in {Pieces[1]} : EndsIn(id, type)

\* a GGA sentence with a valid checksum and at least 7 fields
WellFormedGGA == Delimited /\ SumMatches /\ OfType("GGA") /\ Len(Pieces) >= 7

\* the calendar date of the instant tm is year-month-day
OnDate(tm, year, month, day) ==
  \A y \in {Year(tm)} :
    /\ y = year
    /\ \A m \in {MonthIn(tm, y)} :
         m = month /\ tm.day - DaysBeforeMonth(y, m - 1) + 1 = day

\* C18: parsing an otherwise well-formed GGA sentence (valid checksum, at
\* least 7 fields) fails with ErrInvalidDate whenever any of the supplied
\* year, month or day is 0, for every function that reads a sentence, and
\* when all three are non-zero the supplied date is the date of the
\* resulting Time.
C18_SuppliedDate ==
  (res.fn \in FromNMEA /\ WellFormedGGA) =>
    IF res.year = 0 \/ res.month = 0 \/ res.day = 0
    THEN res.err = "ErrInvalidDate"
    ELSE (res.fn = "NewTimeFromNMEA" /\ res.err = "nil") =>
           OnDate(res.val, res.year, res.month, res.day)

\* C18, the part that holds: with a date of which a part is 0, every function
\* that reads a well-formed GGA sentence fails with ErrInvalidDate
C18_MissingDate ==
  (res.fn \in FromNMEA /\ WellFormedGGA
     /\ (res.year = 0 \/ res.month = 0 \/ res.day = 0)) =>
    res.err = "ErrInvalidDate"

\* C18: the GGA sentence of 25:00:00 read with 2024-06-21 gives a Time of
\* 2024-06-22
C18_NextDay ==
  /\ res.fn = "NewTimeFromNMEA"
  /\ res.nmea = "$GPGGA,250000,4807.038,N,01131.000,E,1,08,0.9,545.4,M,46.9,M,,*4D"
  /\ <<res.year, res.month, res.day>> = <<2024, 6, 21>>
  /\ res.err = "nil"
  /\ OnDate(res.val, 2024, 6, 22)

\* the numbers of the hhmmss and ddmmyy fields of an RMC sentence of pieces p
Numbers(p) ==
  [hh |-> Atoi(SubSeq(p[2], 1, 2)).val, mi |-> Atoi(SubSeq(p[2], 3, 4)).val,
   ss |-> Atoi(SubSeq(p[2], 5, 6)).val, fraction |-> Fraction(p[2]).val,
   dd |-> Atoi(SubSeq(p[10], 1, 2)).val, mm |-> Atoi(SubSeq(p[10], 3, 4)).val,
   yy |-> Atoi(SubSeq(p[10], 5, 6)).val]

\* the four-digit year the claim gives the two-digit year yy
ClaimedYear(yy) == IF yy < 50 THEN 2000 + yy ELSE 1900 + yy

\* the instant tm is the date of the ddmmyy field and the time of day of the
\* hhmmss field, n the numbers of the fields
OwnDateAndTime(tm, n) ==
  /\ OnDate(tm, ClaimedYear(n.yy), n.mm, n.dd)
  /\ tm.sec = n.hh * 3600 + n.mi * 60 + n.ss

\* C19: for an RMC sentence that parses successfully, the resulting Time is
\* exactly the sentence's own date and time (day dd and month mm of the ddmmyy
\* field, year 2000+yy when yy < 50 and 1900+yy when yy >= 50, hour, minute and
\* second of the hhmmss field) and the supplied year, month and day have no
\* influence on the result.
C19_OwnDate ==
  (res.fn = "NewTimeFromNMEA" /\ res.err = "nil" /\ OfType("RMC")) =>
    /\ \A n \in {Numbers(Pieces)} : OwnDateAndTime(res.val, n)
    /\ res.val = TimeFromNMEA(parseNMEA(res.nmea, 0, 0, 0)).val

\* the ddmmyy field is a calendar date and the hhmmss field a time of day
InRange(n) ==
  /\ n.yy >= 0
  /\ n.mm \in 1..12
  /\ n.dd >= 1
  /\ DayNumber(ClaimedYear(n.yy), n.mm, n.dd) < DayNumber(ClaimedYear(n.yy), n.mm + 1, 1)
  /\ n.hh \in 0..23
  /\ n.mi \in 0..59
  /\ n.ss \in 0..59
  /\ n.fraction >= 0

\* C19, the part that holds: the Time is the sentence's own date and time when
\* the fields are a calendar date and a time of day, and the supplied date has
\* no influence on any result
C19_InRange ==
  (res.fn = "NewTimeFromNMEA" /\ res.err = "nil" /\ OfType("RMC")) =>
    /\ \A n \in {Numbers(Pieces)} : InRange(n) => OwnDateAndTime(res.val, n)
    /\ res.val = TimeFromNMEA(parseNMEA(res.nmea, 0, 0, 0)).val

\* C19: the RMC sentence dated 310694 parses, to 1 July 1994
C19_June31 ==
  /\ res.fn = "NewTimeFromNMEA"
  /\ res.nmea = "$GPRMC,123519,A,4807.038,N,01131.000,E,022.4,084.4,310694,003.1,W*6C"
  /\ res.err = "nil"
  /\ OnDate(res.val, 1994, 7, 1)

\* the value a function that reads a sentence returns with an error
ZeroValue ==
  IF res.fn = "NewLocationFromNMEA" THEN Location(0, 0)
  ELSE IF res.fn = "NewTimeFromNMEA" THEN ZeroDate
  ELSE ZeroTime

\* C20: the NMEA parser accepts a sentence only if the XOR of all bytes
\* strictly between the leading '$' and the '*' equals the value of the
\* hexadecimal checksum that follows the '*'; a checksum that differs or is not
\* hexadecimal yields ErrInvalidChecksum and no Location or Time is produced.
C20_Checksum ==
  res.fn \in FromNMEA =>
    /\ res.err = "nil" => (Delimited /\ SumMatches)
    /\ (Delimited /\ ~SumMatches) =>
         (res.err = "ErrInvalidChecksum" /\ res.val = ZeroValue)

\* C20 witness: the GGA fix sent with the checksum 48 instead of 47 gives
\* ErrInvalidChecksum and the zero Time
C20_Witness ==
  /\ res.fn = "NewTimeFromNMEA"
  /\ res.nmea = "$GPGGA,123519,4807.038,N,01131.000,E,1,08,0.9,545.4,M,46.9,M,,*48"
  /\ <<res.year, res.month, res.day>> = <<2024, 6, 21>>
  /\ res.err = "ErrInvalidChecksum"
  /\ res.val = ZeroDate

\* C20 witness: a checksum in lower case is accepted, the Location is the
\* sentence's
C20_LowerCase ==
  /\ res.fn = "NewLocationFromNMEA"
  /\ res.nmea = "$GPGGA,123510,4807.038,N,01131.000,E,1,08,0.9,545.4,M,46.9,M,,*4e"
  /\ <<res.year, res.month, res.day>> = <<2024, 6, 21>>
  /\ res.err = "nil"
  /\ res.val = Location(48117300, 11516666)

\* the two constructors that read a sentence
Constructors == {"NewLocationFromNMEA", "NewTimeFromNMEA"}

\* the sentence has the leading '$'
Prefixed == Trimmed # "" /\ At(Trimmed, 1) = "$"

\* the sentence has fewer fields than the parser or its type needs
TooFew(p) ==
  \/ Len(p) < 2
  \/ EndsIn(p[1], "GGA") /\ Len(p) < 7
  \/ EndsIn(p[1], "RMC") /\ Len(p) < 10

\* an RMC sentence of enough fields whose status is not A
NoFix(p) == EndsIn(p[1], "RMC") /\ Len(p) >= 10 /\ p[3] # "A"

\* a sentence of two fields or more that is neither GGA nor RMC
OtherType(p) == Len(p) >= 2 /\ ~EndsIn(p[1], "GGA") /\ ~EndsIn(p[1], "RMC")

\* the errors the claim gives a sentence for its prefix, delimiter and checksum
Framing ==
  /\ ~Prefixed => res.err = "ErrInvalidNMEA"
  /\ (Prefixed /\ Positions(Trimmed, "*") = {}) => res.err = "ErrInvalidNMEA"
  /\ (Delimited /\ ~SumMatches) => res.err = "ErrInvalidChecksum"

\* the errors the claim gives a checksum-valid sentence of pieces p for its
\* field count and status
Fields(p) ==
  /\ TooFew(p) => res.err = "ErrInvalidNMEA"
  /\ NoFix(p) => res.err = "ErrInvalidNMEA"

\* C21 as claimed: NewLocationFromNMEA and NewTimeFromNMEA fail with
\* ErrInvalidNMEA for a sentence that lacks the '$' prefix, lacks the '*'
\* delimiter, has too few fields, or is an RMC sentence whose status is not
\* 'A'; with ErrInvalidChecksum for a wrong checksum; and with
\* ErrUnsupportedSentence for a checksum-valid sentence whose type is neither
\* GGA nor RMC.
C21_Original ==
  res.fn \in Constructors =>
    /\ Framing
    /\ (Delimited /\ SumMatches) =>
         \A p \in {Pieces} :
           /\ Fields(p)
           /\ OtherType(p) => res.err = "ErrUnsupportedSentence"

\* C21 amended: as claimed, but ErrUnsupportedSentence is the error of a
\* checksum-valid sentence of at least two fields whose sentence id has at
\* least three characters and ends in neither GGA nor RMC; with a sentence id
\* of fewer than three characters the error is ErrInvalidNMEA.
C21_Errors ==
  res.fn \in Constructors =>
    /\ Framing
    /\ (Delimited /\ SumMatches) =>
         \A p \in {Pieces} :
           /\ Fields(p)
           /\ (OtherType(p) /\ Len(p[1]) >= 3) => res.err = "ErrUnsupportedSentence"
           /\ (OtherType(p) /\ Len(p[1]) < 3) => res.err = "ErrInvalidNMEA"

\* C21 witness: the GSV sentence with its own checksum gives
\* ErrUnsupportedSentence
C21_Witness ==
  /\ res.fn = "NewLocationFromNMEA"
  /\ res.nmea = "$GPGSV,3,1,11,03,03,111,00,04,15,270,00*7F"
  /\ res.err = "ErrUnsupportedSentence"

\* C21: the sentence of id GP gives ErrInvalidNMEA
C21_ShortId ==
  /\ res.fn = "NewTimeFromNMEA"
  /\ res.nmea = "$GP,123519*36"
  /\ res.err = "ErrInvalidNMEA"

\* the pending call is one of hourAngle
HourAngleCall == res # NoResult /\ res.fn = "hourAngle"

\* the two sentinel results
Sentinels == {MaxFloat64, -MaxFloat64}

\* the outcome val is the one the ratio calls for
Outcome(ratio, val) ==
  /\ ~IsNaN(ratio)
  /\ (val = MaxFloat64) <=> (ratio > Scale)
  /\ (val = -MaxFloat64) <=> (ratio < -Scale)
  /\ val \notin Sentinels =>
       /\ ratio \in -Scale..Scale
       /\ val = Acos(ratio)
       /\ val \in 0..HalfCircleDegrees
  /\ ratio = Scale => val = 0
  /\ ratio = -Scale => val = HalfCircleDegrees

\* C22: hourAngle gives +MaxFloat64 exactly when the ratio is above 1,
\* -MaxFloat64 exactly when it is below -1, and otherwise acos(ratio) in
\* degrees within [0, 180]; a ratio of exactly 1 gives 0 and of exactly -1
\* gives 180; no result other than a sentinel lies outside [0, 180], the
\* poles included
C22_Outcomes ==
  HourAngleCall =>
    \A ratio \in {HourAngleRatio(SunriseCorrectionAngle, res.latitude, res.declination)} :
      Outcome(ratio, res.val)

\* a call at the pole returning a sentinel
C22_Witness ==
  /\ HourAngleCall
  /\ res.latitude = QuarterCircleDegrees
  /\ res.val = -MaxFloat64

\* a call whose ratio is exactly 1, returning the angle 0
C22_RatioOne ==
  /\ HourAngleCall
  /\ HourAngleRatio(SunriseCorrectionAngle, res.latitude, res.declination) = Scale
  /\ res.val = 0

\* a call whose ratio is exactly -1, returning the angle 180
C22_RatioMinusOne ==
  /\ HourAngleCall
  /\ HourAngleRatio(SunriseCorrectionAngle, res.latitude, res.declination) = -Scale
  /\ res.val = HalfCircleDegrees

\* a call at the pole with a numerator of 0, returning an angle and no sentinel
C22_PoleInside ==
  /\ HourAngleCall
  /\ res.latitude = QuarterCircleDegrees
  /\ res.val \in 1..(HalfCircleDegrees - 1)

\* rest when the check passes, its error otherwise
Check(passes, err, rest) == IF passes THEN rest ELSE err

\* the ddmmyy field is six characters, three numbers
DateReads(s) ==
  /\ Len(s) = 6
  /\ Atoi(SubSeq(s, 1, 2)).ok
  /\ Atoi(SubSeq(s, 3, 4)).ok
  /\ Atoi(SubSeq(s, 5, 6)).ok

\* the last three checks: time, latitude, longitude
ContentChecks(tm, lat, ns, lon, ew) ==
  Check(parseNMEATime(tm, 2000, 1, 1).err = "nil", parseNMEATime(tm, 2000, 1, 1).err,
  Check(parseLatitude(lat, ns).err = "nil", parseLatitude(lat, ns).err,
  Check(parseLongitude(lon, ew).err = "nil", parseLongitude(lon, ew).err,
  "nil")))

\* the checks of a GGA sentence of pieces p after its field count
GGAChecks(p) ==
  Check(res.year # 0 /\ res.month # 0 /\ res.day # 0, "ErrInvalidDate",
  ContentChecks(p[2], p[3], p[4], p[5], p[6]))

\* the checks of an RMC sentence of pieces p after its field count
RMCChecks(p) ==
  Check(p[3] = "A", "ErrInvalidNMEA",
  Check(DateReads(p[10]), "ErrInvalidDate",
  ContentChecks(p[2], p[4], p[5], p[6], p[7])))

\* the checks of a checksum-valid sentence of pieces p
FieldChecks(p) ==
  Check(Len(p) >= 2, "ErrInvalidNMEA",
  Check(Len(p[1]) >= 3, "ErrInvalidNMEA",
  Check(EndsIn(p[1], "GGA") \/ EndsIn(p[1], "RMC"), "ErrUnsupportedSentence",
  Check(~TooFew(p), "ErrInvalidNMEA",
  IF EndsIn(p[1], "GGA") THEN GGAChecks(p) ELSE RMCChecks(p)))))

\* the error of the first check that fails, "nil" when none does
FirstFailure ==
  Check(Prefixed, "ErrInvalidNMEA",
  Check(Cardinality(Positions(Trimmed, "*")) = 1, "ErrInvalidNMEA",
  Check(SumMatches, "ErrInvalidChecksum",
  FieldChecks(Pieces))))

\* C23: the parser applies its checks in the order '$' prefix, '*' delimiter,
\* checksum, field count, length of the sentence id, sentence type, field
\* count of the type, then the supplied date (GGA) or the status and the
\* ddmmyy date (RMC), then time, latitude, longitude, and returns the error
\* of the first check that fails; a wrong checksum gives ErrInvalidChecksum
\* whatever the type and the fields, and a GGA sentence of too few fields
\* gives ErrInvalidNMEA even without a date
C23_Order == res.fn \in Constructors => res.err = FirstFailure

\* a call with a sentence that fails a check after its checksum
LaterDefect ==
  /\ res.fn \in Constructors
  /\ Delimited
  /\ \A p \in {Pieces} :
       \/ OtherType(p)
       \/ TooFew(p)
       \/ NoFix(p)
       \/ Len(p) >= 7 /\ parseNMEATime(p[2], 2000, 1, 1).err # "nil"

\* a sentence with a wrong checksum that would also fail a later check gives
\* ErrInvalidChecksum
C23_Witness ==
  /\ LaterDefect
  /\ ~SumMatches
  /\ res.err = "ErrInvalidChecksum"

\* a GGA sentence of too few fields, with no date, gives ErrInvalidNMEA
C23_ShortGGA ==
  /\ res.fn \in Constructors
  /\ Delimited /\ SumMatches /\ OfType("GGA")
  /\ Len(Pieces) \in 2..6
  /\ res.year = 0
  /\ res.err = "ErrInvalidNMEA"

\* a GGA sentence whose time and latitude are both malformed gives the
\* time's error
C23_TimeFirst ==
  /\ res.fn \in Constructors
  /\ res.nmea = "$GPGGA,12ab19,,N,01131.000,E,1,08,0.9,545.4,M,46.9,M,,*5C"
  /\ res.year = 2024 /\ res.month = 6 /\ res.day = 21
  /\ res.err = "ErrInvalidDate"

\* the UTC calendar date of the Time held, as a day number
UTCDate == CHOOSE d \in (FirstDay - 1)..(FirstDay + 1) \cup Days :
             d * secondsInADay <= t /\ t < (d + 1) * secondsInADay

\* the pending result is the one the function gives the Location held on the
\* date day
OfDate(day) ==
  /\ res.fn \in {"Sunrise", "Sunset", "SunriseSunset"} =>
       \A r \in {sunriseSunsetInternal(loc.latitude, loc.longitude, day)} :
         /\ res.err = r.err
         /\ res.fn # "Sunset" => res.t1 = r.t1
         /\ res.fn # "Sunrise" => res.t2 = r.t2
  /\ res.fn = "TimeOfElevation" =>
       \A r \in {timeOfElevationInternal(loc.latitude, loc.longitude, res.elevation, day)} :
         res.t1 = r.t1 /\ res.t2 = r.t2
  /\ res.fn = "Dawn" =>
       res.t1 = dawnInternal(loc.latitude, loc.longitude, day, res.twilightType)
  /\ res.fn = "Dusk" =>
       res.t2 = duskInternal(loc.latitude, loc.longitude, day, res.twilightType)
  /\ res.fn = "DawnDusk" =>
       \A r \in {dawnDuskInternal(loc.latitude, loc.longitude, day, res.twilightType)} :
         res.t1 = r.t1 /\ res.t2 = r.t2
  /\ res.fn = "MeanSolarNoon" =>
       res.val = JulianDayToTime(meanSolarNoonInternal(loc.longitude, day))

\* C24: the results of Sunrise, Sunset, SunriseSunset, Dawn, Dusk, DawnDusk,
\* TimeOfElevation and MeanSolarNoon depend only on the location (and the
\* elevation or twilight type) and on the UTC year, month and day of the
\* Time: whatever its time of day and its original time zone, the result is
\* that of the UTC calendar date
C24_DateOnly == OfDate(UTCDate)

\* the functions of C24
ByDate ==
  {"Sunrise", "Sunset", "SunriseSunset", "Dawn", "Dusk", "DawnDusk",
   "TimeOfElevation", "MeanSolarNoon"}

\* a result for a Time in the evening of a date in UTC-5, the following
\* date in UTC
C24_Witness ==
  /\ res.fn \in ByDate
  /\ t = UTC(FirstDay * secondsInADay + 72000, -18000)
  /\ UTCDate = FirstDay + 1

\* a result for a Time in the morning of a date in UTC+9, the date before
\* in UTC
C24_DayBefore ==
  /\ res.fn = "MeanSolarNoon"
  /\ t = UTC(FirstDay * secondsInADay + 21600, 32400)
  /\ UTCDate = FirstDay - 1

\* a result for a Time in the afternoon, UTC
C24_Afternoon ==
  /\ res.fn = "SunriseSunset"
  /\ t = FirstDay * secondsInADay + 72000
  /\ UTCDate = FirstDay

\* the functions of C25
Wrappers ==
  {"DawnFromNMEA", "DuskFromNMEA", "DawnDuskFromNMEA", "MeanSolarNoonFromNMEA",
   "TimeOfElevationFromNMEA"}

\* the zero-valued results of the pending call's function
ZeroResults ==
  IF res.fn \in {"DawnDuskFromNMEA", "TimeOfElevationFromNMEA"}
  THEN <<ZeroTime, ZeroTime>> ELSE ZeroTime

\* the result of the direct function of the pending call on the Location of
\* latitude and longitude and a Time of the date day
Direct(latitude, longitude, day) ==
  CASE res.fn = "DawnFromNMEA" -> dawnInternal(latitude, longitude, day, res.arg)
    [] res.fn = "DuskFromNMEA" -> duskInternal(latitude, longitude, day, res.arg)
    [] res.fn = "DawnDuskFromNMEA" ->
         Both(dawnDuskInternal(latitude, longitude, day, res.arg))
    [] res.fn = "TimeOfElevationFromNMEA" ->
         Both(timeOfElevationInternal(latitude, longitude, res.arg, day))
    [] res.fn = "MeanSolarNoonFromNMEA" ->
         JulianDayToTime(meanSolarNoonInternal(longitude, day))

\* the pending result is the one the claim gives the parse pos
AsParsed(pos) ==
  /\ (res.err # "nil") <=> (pos.err # "nil")
  /\ pos.err # "nil" => res.err = pos.err /\ res.val = ZeroResults
  /\ pos.err = "nil" => res.val = Direct(pos.Latitude, pos.Longitude, pos.Time.day)

\* C25: DawnFromNMEA, DuskFromNMEA, DawnDuskFromNMEA, MeanSolarNoonFromNMEA
\* and TimeOfElevationFromNMEA return a non-nil error if and only if parsing
\* the sentence fails; then the error is the parser's and the results are
\* zero-valued; when parsing succeeds the result is that of the direct
\* function on the Location and Time parsed from the sentence
C25_Wrappers ==
  res.fn \in Wrappers =>
    \A pos \in {parseNMEA(res.nmea, res.year, res.month, res.day)} : AsParsed(pos)

\* a dawn computed from the GGA fix of 2024-06-21
C25_Witness ==
  /\ res.fn = "DawnFromNMEA"
  /\ res.nmea = "$GPGGA,123519,4807.038,N,01131.000,E,1,08,0.9,545.4,M,46.9,M,,*47"
  /\ res.year = 2024
  /\ res.err = "nil"
  /\ res.val = dawnInternal(48117300, 11516666, FirstDay, res.arg)
  /\ res.val # ZeroTime

\* a sentence that does not parse: the parser's error and two zero times
C25_Failed ==
  /\ res.fn = "TimeOfElevationFromNMEA"
  /\ res.nmea = "$GPGSV,3,1,11,03,03,111,00,04,15,270,00*7F"
  /\ res.err = "ErrUnsupportedSentence"
  /\ res.val = <<ZeroTime, ZeroTime>>

\* the pending result of Dawn, Dusk or DawnDusk is the one that function
\* gives the twilightType argument arg
AsWith(arg) ==
  /\ res.fn = "Dawn" =>
       res.t1 = dawnInternal(loc.latitude, loc.longitude, DateOf(t), arg)
  /\ res.fn = "Dusk" =>
       res.t2 = duskInternal(loc.latitude, loc.longitude, DateOf(t), arg)
  /\ res.fn = "DawnDusk" =>
       \A r \in {dawnDuskInternal(loc.latitude, loc.longitude, DateOf(t), arg)} :
         res.t1 = r.t1 /\ res.t2 = r.t2

\* the pending result of Dawn, Dusk or DawnDusk is the crossing of -6 degrees
AtCivilAngle ==
  \A r \in {timeOfElevationInternal(loc.latitude, loc.longitude, -6 * Scale, DateOf(t))} :
    /\ res.fn # "Dusk" => res.t1 = r.t1
    /\ res.fn # "Dawn" => res.t2 = r.t2

\* C26: without a twilight type Dawn, Dusk and DawnDusk return what they
\* return for Civil; of several twilight types only the first is used; and a
\* TwilightType other than Nautical and Astronomical is treated as Civil,
\* -6 degrees
C26_Defaults ==
  res.fn \in {"Dawn", "Dusk", "DawnDusk"} =>
    /\ res.twilightType = <<>> => AsWith(<<"Civil">>)
    /\ Len(res.twilightType) > 1 => AsWith(<<res.twilightType[1]>>)
    /\ (Len(res.twilightType) > 0
          /\ res.twilightType[1] \notin {"Nautical", "Astronomical"}) =>
         AsWith(<<"Civil">>) /\ AtCivilAngle

\* the result for Civil differs from those for Nautical and Astronomical
Distinguished ==
  /\ dawnInternal(loc.latitude, loc.longitude, DateOf(t), <<"Civil">>)
       # dawnInternal(loc.latitude, loc.longitude, DateOf(t), <<"Nautical">>)
  /\ dawnInternal(loc.latitude, loc.longitude, DateOf(t), <<"Civil">>)
       # dawnInternal(loc.latitude, loc.longitude, DateOf(t), <<"Astronomical">>)
  /\ dawnInternal(loc.latitude, loc.longitude, DateOf(t), <<"Nautical">>)
       # dawnInternal(loc.latitude, loc.longitude, DateOf(t), <<"Astronomical">>)

\* a dawn for an undeclared twilight type where the three types differ
C26_Witness ==
  /\ res.fn = "Dawn"
  /\ res.twilightType = <<UndeclaredTwilightType>>
  /\ Distinguished
  /\ res.t1 # ZeroTime

\* a dawn and dusk for two twilight types where the three types differ
C26_Several ==
  /\ res.fn = "DawnDusk"
  /\ res.twilightType = <<"Nautical", "Astronomical">>
  /\ Distinguished
  /\ res.t1 = dawnInternal(loc.latitude, loc.longitude, DateOf(t), <<"Nautical">>)

\* a dusk without a twilight type where the three types differ
C26_None ==
  /\ res.fn = "Dusk"
  /\ res.twilightType = <<>>
  /\ Distinguished
  /\ res.t2 # ZeroTime

\* the pending call is one of parseLatitude or parseLongitude
PositionCall == res.fn \in {"parseLatitude", "parseLongitude"}

\* the indicator of the negative and of the positive hemisphere
NegativeIndicator == IF res.fn = "parseLatitude" THEN "S" ELSE "W"

PositiveIndicator == IF res.fn = "parseLatitude" THEN "N" ELSE "E"

\* s is one or more decimal digits
AllDigits(s) == s # "" /\ \A i \in 1..Len(s) : Digit(At(s, i)) >= 0

\* s is digits, or nothing
NoneOrDigits(s) == \A i \in 1..Len(s) : Digit(At(s, i)) >= 0

\* s without its sign
Magnitude(s) == IF s # "" /\ At(s, 1) \in {"+", "-"} THEN Tail(s) ELSE s

\* the field f with its decimal point at position dot (1-based) has a
\* numeric degrees part and a numeric minutes part
NumericParts(f, dot) ==
  /\ AllDigits(Magnitude(SubSeq(f, 1, dot - 3)))
  /\ AllDigits(Magnitude(SubSeq(f, dot - 2, dot - 1)))
  /\ NoneOrDigits(SubSeq(f, dot + 1, Len(f)))

\* the cases for which the claim has ErrInvalidPosition returned
Rejected(f, dot) ==
  \/ f = "" \/ res.indicator = ""
  \/ dot < 3
  \/ ~NumericParts(f, dot)
  \/ res.indicator \notin {NegativeIndicator, PositiveIndicator}

\* degrees + minutes/60 of the field f with its decimal point at dot
ClaimedDegrees(f, dot) ==
  ParseFloat(SubSeq(f, 1, dot - 3)).val + Sixtieth(ParseFloat(SubSeq(f, dot - 2, Len(f))).val)

\* the pending result is the one the claim gives the field f with its
\* decimal point at dot
DecodedAsClaimed(f, dot) ==
  IF Rejected(f, dot) THEN res.err = "ErrInvalidPosition"
  ELSE /\ res.err = "nil"
       /\ res.indicator = NegativeIndicator => res.val = -ClaimedDegrees(f, dot)
       /\ res.indicator = PositiveIndicator =>
            res.val = ClaimedDegrees(f, dot) /\ res.val >= 0

\* C27 as claimed: parseLatitude and parseLongitude decode a (d)ddmm.mmmm
\* field as degrees + minutes/60, the minutes being the two digits before
\* the decimal point with the fraction and the degrees the digits before
\* them; the result is negated for S or W and left non-negative for N or E;
\* ErrInvalidPosition is returned for an empty field or indicator, a decimal
\* point absent or at index < 2, a non-numeric degrees or minutes part, or
\* any other indicator
C27_Decode ==
  PositionCall => DecodedAsClaimed(res.field, IndexByte(res.field, "."))

\* the field is free of signs and of letters spelling NaN
Unsigned27 ==
  /\ Positions(res.field, "-") = {} /\ Positions(res.field, "+") = {}
  /\ Positions(res.field, "N") = {} /\ Positions(res.field, "n") = {}

\* C27 for fields without a sign and without NaN: the claim holds
C27_Digits ==
  (PositionCall /\ Unsigned27) => DecodedAsClaimed(res.field, IndexByte(res.field, "."))

\* the latitude 4807.038 S decoded as -48.1173 degrees
C27_Witness ==
  /\ res.fn = "parseLatitude"
  /\ res.field = "4807.038" /\ res.indicator = "S"
  /\ res.err = "nil" /\ res.val = -48117300

\* a latitude whose degrees read NaN is accepted: no error and a NaN
C27_NaN ==
  /\ res.fn = "parseLatitude"
  /\ res.field = "NaN07.038" /\ res.indicator = "N"
  /\ res.err = "nil" /\ IsNaN(res.val)

\* a signed longitude is accepted: a negative result for E
C27_Signed ==
  /\ res.fn = "parseLongitude"
  /\ res.field = "-4807.038" /\ res.indicator = "E"
  /\ res.err = "nil" /\ res.val < 0

\* a is b modulo 360 degrees, to within one micro-degree
Congruent(a, b) == (a - b + 1) % FullCircleDegrees \in 0..2

\* the quarters of a day from noon to the time of day ms
QuartersFromNoon(ms) == (ms - J2000.ms) \div (6 * 3600 * Thousand)

\* the mean anomaly of the day after d is 0.98560028 degrees further, and
\* that of an instant of the day of d is 0.24640007 degrees from that of its
\* noon for each quarter of a day
Advances(d, val) ==
  /\ Congruent(meanAnomaly([day |-> d.day + 1, ms |-> d.ms]), val + 985600)
  /\ Congruent(val, meanAnomaly([day |-> d.day, ms |-> J2000.ms])
                     + QuartersFromNoon(d.ms) * 246400)

\* C28: MeanAnomaly(d) is (357.5291 + 0.98560028 * (d - 2451545)) mod 360
\* normalized into [0, 360): 357.5291 at J2000, 0.98560028 degrees more for
\* each day, and always 0 <= r < 360, before as well as after J2000
C28_Normalized ==
  res.fn = "MeanAnomaly" =>
    /\ res.val >= 0 /\ res.val < FullCircleDegrees
    /\ res.d = J2000 => res.val = 357529100
    /\ Advances(res.d, res.val)

\* a day before J2000 whose remainder is negative: the result is above 180
C28_Witness ==
  /\ res.fn = "MeanAnomaly"
  /\ res.d.day < J2000.day
  /\ res.val > HalfCircleDegrees

\* a day after J2000 whose angle has gone round: the result is below 180
C28_After ==
  /\ res.fn = "MeanAnomaly"
  /\ res.d.day > J2000.day + 10
  /\ res.val < HalfCircleDegrees

\* the pending call is one of the two parsers
ParserCall == res.fn = "parseNMEA"

\* C29 as claimed: the allocation-free parser and the original parser are
\* observationally equivalent: for every sentence and supplied date both
\* accept or both reject, with the same error kind when they reject and the
\* same latitude, longitude and time to the nanosecond when they accept
C29_Equivalent == ParserCall => res.pos = res.original

\* the fraction of a second of the sentence's time field is a lone sign
LoneSign ==
  /\ Delimited
  /\ \A p \in {Pieces} :
       /\ Len(p) >= 2
       /\ Len(p[2]) = 8
       /\ At(p[2], 7) = "."
       /\ At(p[2], 8) \in {"-", "+"}

\* C29 for every sentence whose fraction of a second is not a lone sign: the
\* two parsers agree
C29_Signless == (ParserCall /\ ~LoneSign) => res.pos = res.original

\* a fraction of a second that is a lone minus sign: the allocation-free
\* parser rejects the sentence, the original parser accepts it at 12:35:19
C29_LoneSign ==
  /\ ParserCall
  /\ res.nmea = "$GPGGA,123519.-,4807.038,N,01131.000,E,1,08,0.9,545.4,M,46.9,M,,*44"
  /\ res.year = 2024 /\ res.month = 6 /\ res.day = 21
  /\ res.pos.err = "ErrInvalidDate"
  /\ res.original.err = "nil"
  /\ res.original.Time = Date(2024, 6, 21, 12, 35, 19, 0)

\* a sentence of 25 fields: both parsers accept it with the same position
C29_ManyFields ==
  /\ ParserCall
  /\ Delimited
  /\ Len(Split(Body, ",")) > maxNMEAFields
  /\ res.pos.err = "nil"
  /\ res.pos = res.original

\* the number of commas of the sentence of the pending call
Commas == Cardinality(Positions(res.s, ","))

\* C30: splitNMEAFields terminates on every input and returns n with
\* 1 <= n <= 20, having written fields[0..n-1] only; with at most 19 commas
\* the n fields are the comma-separated pieces of the sentence in order, with
\* more they are its first 20 pieces and the rest of the sentence is
\* discarded
C30_Split ==
  res.fn = "splitNMEAFields" =>
    /\ res.n \in 1..maxNMEAFields
    /\ Len(res.fields) = res.n
    /\ Commas <= 19 => res.fields = Split(res.s, ",")
    /\ Commas > 19 => res.fields = SubSeq(Split(res.s, ","), 1, 20)

\* a sentence of 25 pieces: 20 fields, the last one the 20th piece
C30_Witness ==
  /\ res.fn = "splitNMEAFields"
  /\ Commas = 24
  /\ res.n = 20
  /\ res.fields[20] = "19"

\* a sentence of exactly 20 pieces: 20 fields, all of them
C30_Exact ==
  /\ res.fn = "splitNMEAFields"
  /\ Commas = 19
  /\ res.n = 20
  /\ res.fields = Split(res.s, ",")

\* the empty sentence: one empty field
C30_Empty ==
  /\ res.fn = "splitNMEAFields"
  /\ res.s = ""
  /\ res.n = 1
  /\ res.fields = <<"">>

====
